---------------------------- MODULE Spec2Model ----------------------------
(***************************************************************************)
(* The three codecs of the obfuscator: Lana-Vortex (lanaVortex), Lexical   *)
(* Scramble (lexicalScramble) and String Concealment (stringConceal).      *)
(*                                                                         *)
(* A JavaScript string is modelled as the sequence of its UTF-16 code      *)
(* units (natural numbers); the comment before a tuple of code units gives *)
(* the text it stands for.  A call that throws is modelled by a result     *)
(* record with ok = FALSE and the thrown message in error.                 *)
(***************************************************************************)
EXTENDS Integers, Sequences, FiniteSets, TLC

VARIABLES
    method,     \* the codec in use: "lana-vortex", "lexical-scramble", "string-conceal"
    code,       \* the source text handed to encode
    key,        \* the secret key handed to encode
    calls,      \* number of encode calls made so far on (code, key)
    enc,        \* outcome of the latest encode call
    prev,       \* outcome and locals of the encode call before the latest one
    work,       \* the locals of the latest encode call (fragments, map, generator seed, ...)
    decArg,     \* the key handed to decode (Lexical Scramble takes the table of encode)
    dec         \* outcome of the decode call

vars == <<method, code, key, calls, enc, prev, work, decArg, dec>>

----------------------------------------------------------------------------
(* Bounds of the model.                                                    *)

\* Longest source text drawn exhaustively for Lana-Vortex.
MaxVortexLen == 5
\* Number of encode calls made on the same (code, key).
MaxCalls == 2
\* Number of encode calls on another (code, key) made in between.
MaxOtherCalls == 1
\* the longest generated source text given to String Conceal
MaxConcealLen == 4
\* the longest generated source text given to Lexical Scramble
MaxScrambleLen == 4
\* the largest index of an identifier that is given a name
MaxNameIndex == 3000
\* the longest payload array and the longest map of an artifact given to
\* decode directly
MaxTableLen == 2

----------------------------------------------------------------------------
(* Character classes of the regular expressions.                           *)

Min(a, b) == IF a < b THEN a ELSE b
Max(a, b) == IF a > b THEN a ELSE b

\* the regular expression class \w: [A-Za-z0-9_]
IsWordChar(c) == (c >= 65 /\ c <= 90) \/ (c >= 97 /\ c <= 122) \/ (c >= 48 /\ c <= 57) \/ c = 95
\* [a-zA-Z0-9]
IsAlnum(c) == (c >= 65 /\ c <= 90) \/ (c >= 97 /\ c <= 122) \/ (c >= 48 /\ c <= 57)
\* line terminators: the characters the regular expression '.' does not match
IsLineTerminator(c) == c \in {10, 13, 8232, 8233}
\* the regular expression class \s
IsWhiteSpace(c) ==
    c \in {9, 10, 11, 12, 13, 32, 160, 5760, 8232, 8233, 8239, 8287, 12288, 65279}
    \/ (c >= 8192 /\ c <= 8202)

\* text.startsWith(pat, i - 1): pat occurs in text at the 1-based position i
OccursAt(text, pat, i) ==
    /\ i >= 1
    /\ i + Len(pat) - 1 <= Len(text)
    /\ \A j \in 1..Len(pat) : text[i + j - 1] = pat[j]

RECURSIVE Concat(_)
\* array.join('') of an array of strings
Concat(ss) == IF Len(ss) = 0 THEN <<>> ELSE Head(ss) \o Concat(Tail(ss))

RECURSIVE DecimalDigits(_)
\* String(n) for an integer n >= 0
DecimalDigits(n) ==
    IF n < 10 THEN <<48 + n>> ELSE DecimalDigits(n \div 10) \o <<48 + (n % 10)>>

----------------------------------------------------------------------------
(* btoa / atob: base64 over code units 0..255.                             *)

\* 'ABCDEFGHIJKLMNOPQRSTUVWXYZabcdefghijklmnopqrstuvwxyz0123456789+/'
Base64Alphabet ==
    [i \in 0..63 |->
        IF i < 26 THEN 65 + i
        ELSE IF i < 52 THEN 97 + (i - 26)
        ELSE IF i < 62 THEN 48 + (i - 52)
        ELSE IF i = 62 THEN 43 ELSE 47]

\* the 6-bit value of a base64 character, -1 for any other character
Base64Value(c) ==
    IF c >= 65 /\ c <= 90 THEN c - 65
    ELSE IF c >= 97 /\ c <= 122 THEN c - 97 + 26
    ELSE IF c >= 48 /\ c <= 57 THEN c - 48 + 52
    ELSE IF c = 43 THEN 62
    ELSE IF c = 47 THEN 63
    ELSE -1

\* btoa throws InvalidCharacterError on a code unit above 255
BtoaThrows(s) == \E i \in 1..Len(s) : s[i] > 255

RECURSIVE btoa(_)
\* btoa(s), for s with every code unit <= 255
btoa(s) ==
    IF Len(s) = 0 THEN <<>>
    ELSE IF Len(s) = 1 THEN
        <<Base64Alphabet[s[1] \div 4], Base64Alphabet[(s[1] % 4) * 16], 61, 61>>
    ELSE IF Len(s) = 2 THEN
        <<Base64Alphabet[s[1] \div 4],
          Base64Alphabet[(s[1] % 4) * 16 + s[2] \div 16],
          Base64Alphabet[(s[2] % 16) * 4], 61>>
    ELSE
        <<Base64Alphabet[s[1] \div 4],
          Base64Alphabet[(s[1] % 4) * 16 + s[2] \div 16],
          Base64Alphabet[(s[2] % 16) * 4 + s[3] \div 64],
          Base64Alphabet[s[3] % 64]>> \o btoa(SubSeq(s, 4, Len(s)))

\* atob first removes ASCII whitespace, then up to two trailing '=' when the
\* length is a multiple of 4
AtobStripped(s) ==
    LET t == SelectSeq(s, LAMBDA c : c \notin {9, 10, 12, 13, 32})
        n == Len(t)
    IN  IF n > 0 /\ n % 4 = 0 /\ t[n] = 61
        THEN IF n > 1 /\ t[n - 1] = 61 THEN SubSeq(t, 1, n - 2) ELSE SubSeq(t, 1, n - 1)
        ELSE t

\* atob throws InvalidCharacterError on a length of 1 mod 4 or a character
\* outside the base64 alphabet
AtobThrows(s) ==
    LET t == AtobStripped(s)
    IN  Len(t) % 4 = 1 \/ \E i \in 1..Len(t) : Base64Value(t[i]) < 0

RECURSIVE AtobDecode(_)
AtobDecode(t) ==
    IF Len(t) < 2 THEN <<>>
    ELSE LET a == Base64Value(t[1])
             b == Base64Value(t[2])
         IN  IF Len(t) = 2 THEN <<a * 4 + b \div 16>>
             ELSE LET c == Base64Value(t[3])
                  IN  IF Len(t) = 3 THEN <<a * 4 + b \div 16, (b % 16) * 16 + c \div 4>>
                      ELSE <<a * 4 + b \div 16, (b % 16) * 16 + c \div 4,
                             (c % 4) * 64 + Base64Value(t[4])>>
                           \o AtobDecode(SubSeq(t, 5, Len(t)))

\* atob(s), for s on which atob does not throw
atob(s) == AtobDecode(AtobStripped(s))

----------------------------------------------------------------------------
(* xorCipher (both codecs define the same function).                       *)

RECURSIVE BitXor(_, _)
\* a ^ b on non-negative integers
BitXor(a, b) ==
    IF a = 0 THEN b
    ELSE IF b = 0 THEN a
    ELSE (((a % 2) + (b % 2)) % 2) + 2 * BitXor(a \div 2, b \div 2)

\* text.split('').map((char, i) => fromCharCode(char ^ key.charCodeAt(i % key.length))).join('')
\* with an empty key, key.charCodeAt(NaN) is NaN and char ^ NaN is char
xorCipher(text, k) ==
    [i \in 1..Len(text) |->
        IF Len(k) = 0 THEN text[i] ELSE BitXor(text[i], k[((i - 1) % Len(k)) + 1])]

----------------------------------------------------------------------------
(* JSON.stringify / JSON.parse of the arrays embedded in an artifact.      *)

RECURSIVE JoinWith(_, _)
\* array.join(sep)
JoinWith(ss, sep) ==
    IF Len(ss) = 0 THEN <<>>
    ELSE IF Len(ss) = 1 THEN ss[1]
    ELSE ss[1] \o sep \o JoinWith(Tail(ss), sep)

\* JSON.stringify of an array of strings that need no escaping (base64 text)
StringifyStrings(ss) ==
    <<91>> \o JoinWith([i \in 1..Len(ss) |-> <<34>> \o ss[i] \o <<34>>], <<44>>) \o <<93>>

\* 'null'
JsonNull == <<110, 117, 108, 108>>

\* JSON.stringify of an array of non-negative integers; a hole of the array
\* (written -1) is serialised as null
StringifyNumbers(ns) ==
    <<91>> \o JoinWith([i \in 1..Len(ns) |->
                           IF ns[i] < 0 THEN JsonNull ELSE DecimalDigits(ns[i])],
                       <<44>>) \o <<93>>

RECURSIVE SplitOn(_, _)
\* text.split(sep) for a one-character separator
SplitOn(text, sep) ==
    IF \A i \in 1..Len(text) : text[i] # sep THEN <<text>>
    ELSE LET i == CHOOSE i \in 1..Len(text) :
                      text[i] = sep /\ \A j \in 1..(i - 1) : text[j] # sep
         IN  <<SubSeq(text, 1, i - 1)>> \o SplitOn(SubSeq(text, i + 1, Len(text)), sep)

\* a JSON string literal without escapes or control characters: "..."
IsPlainJsonString(t) ==
    /\ Len(t) >= 2
    /\ t[1] = 34
    /\ t[Len(t)] = 34
    /\ \A i \in 2..(Len(t) - 1) : t[i] # 34 /\ t[i] # 92 /\ t[i] >= 32

\* a JSON number that is a non-negative integer: 0 or [1-9][0-9]*
IsJsonNatural(t) ==
    /\ Len(t) >= 1
    /\ \A i \in 1..Len(t) : t[i] >= 48 /\ t[i] <= 57
    /\ (Len(t) > 1 => t[1] # 48)

RECURSIVE DecimalValue(_)
DecimalValue(t) ==
    IF Len(t) = 0 THEN 0 ELSE 10 * DecimalValue(SubSeq(t, 1, Len(t) - 1)) + (t[Len(t)] - 48)

\* the body of a JSON array text '[...]', without the brackets
ArrayBody(t) == SubSeq(t, 2, Len(t) - 1)

\* JSON.parse(t) accepts t as an array of plain strings
ParsesAsStrings(t) ==
    /\ Len(t) >= 2
    /\ t[1] = 91
    /\ t[Len(t)] = 93
    /\ (Len(t) > 2 =>
            LET parts == SplitOn(ArrayBody(t), 44)
            IN  \A i \in 1..Len(parts) : IsPlainJsonString(parts[i]))

\* JSON.parse(t) for t an array of plain strings
ParseStrings(t) ==
    IF Len(t) = 2 THEN <<>>
    ELSE LET parts == SplitOn(ArrayBody(t), 44)
         IN  [i \in 1..Len(parts) |-> SubSeq(parts[i], 2, Len(parts[i]) - 1)]

\* JSON.parse(t) accepts t as an array of non-negative integers and nulls
ParsesAsNumbers(t) ==
    /\ Len(t) >= 2
    /\ t[1] = 91
    /\ t[Len(t)] = 93
    /\ (Len(t) > 2 =>
            LET parts == SplitOn(ArrayBody(t), 44)
            IN  \A i \in 1..Len(parts) : IsJsonNatural(parts[i]) \/ parts[i] = JsonNull)

\* JSON.parse(t) for t an array of non-negative integers and nulls; a null is
\* written -1, a value no index equals
ParseNumbers(t) ==
    IF Len(t) = 2 THEN <<>>
    ELSE LET parts == SplitOn(ArrayBody(t), 44)
         IN  [i \in 1..Len(parts) |->
                 IF parts[i] = JsonNull THEN -1 ELSE DecimalValue(parts[i])]

----------------------------------------------------------------------------
(* Lana-Vortex: createSeed and seededRandom.                               *)
(* TLC's integers are 32 bits wide, so the 32-bit wrap of the hash is      *)
(* computed on 16-bit halves and the product of the generator modulo its   *)
(* modulus by doubling; the values are those of the JavaScript arithmetic. *)

\* one round of createSeed's loop: hash = ((hash << 5) - hash) + char; hash |= 0,
\* i.e. 31 * hash + char wrapped to a signed 32-bit integer
HashStep(hash, char) ==
    LET lo  == hash % 65536
        hi  == (hash \div 65536) % 65536
        lo2 == 31 * lo + char
        hi2 == (31 * hi + lo2 \div 65536) % 65536
    IN  IF hi2 >= 32768
        THEN (hi2 - 65536) * 65536 + (lo2 % 65536)
        ELSE hi2 * 65536 + (lo2 % 65536)

RECURSIVE HashFrom(_, _, _)
HashFrom(hash, k, i) ==
    IF i > Len(k) THEN hash ELSE HashFrom(HashStep(hash, k[i]), k, i + 1)

\* createSeed(key)
createSeed(k) == IF Len(k) = 0 THEN 0 ELSE HashFrom(0, k, 1)

LcgMultiplier == 9301
LcgIncrement == 49297
LcgModulus == 233280

RECURSIVE MulMod(_, _, _)
\* (a * b) mod m for 0 <= a < m, without leaving 32 bits
MulMod(a, b, m) ==
    IF b = 0 THEN 0 ELSE (2 * MulMod(a, b \div 2, m) + (b % 2) * a) % m

\* one draw of seededRandom's closure: seed = (seed * 9301 + 49297) % 233280.
\* JavaScript's % takes the sign of the dividend, which is negative exactly
\* when seed < -(49297 / 9301).
NextSeed(seed) ==
    LET r == (MulMod(seed % LcgModulus, LcgMultiplier, LcgModulus) + LcgIncrement) % LcgModulus
    IN  IF seed < -(LcgIncrement \div LcgMultiplier) /\ r # 0 THEN r - LcgModulus ELSE r

RECURSIVE SeedsFrom(_, _)
\* the values seed takes in n successive calls of the closure seededRandom(seed)
SeedsFrom(seed, n) ==
    IF n = 0 THEN <<>> ELSE <<NextSeed(seed)>> \o SeedsFrom(NextSeed(seed), n - 1)

\* the comparator () => random() - 0.5 returns a negative number:
\* seed / 233280 - 0.5 < 0
OrderNegative(seed) == 2 * seed < LcgModulus

\* a generator that outlives the call: a later call goes on from the seed the
\* earlier one left
seededRandomShared(k) == IF "seed" \in DOMAIN work THEN work.seed ELSE createSeed(k)

\* the generator the shuffle of an encode call starts from: seededRandom(createSeed(key))
seededRandom(k) == createSeed(k)

----------------------------------------------------------------------------
(* Lana-Vortex: the shuffle  indices.sort(() => random() - 0.5).           *)
(* Array.prototype.sort on fewer than 64 elements finds the run the array  *)
(* starts with (reversing it when it descends) and inserts the remaining   *)
(* elements by binary insertion; every comparison takes one draw.  The     *)
(* state of a sort is [arr, seed, draws].                                  *)

\* the run counted from index idx on (0-based), one comparison per element
RECURSIVE CountRun(_, _, _, _, _, _)
CountRun(n, idx, isDescending, runLength, seed, draws) ==
    IF idx >= n THEN [run |-> runLength, seed |-> seed, draws |-> draws]
    ELSE LET s2 == NextSeed(seed)
             stop == IF isDescending THEN ~OrderNegative(s2) ELSE OrderNegative(s2)
         IN  IF stop THEN [run |-> runLength, seed |-> s2, draws |-> draws + 1]
             ELSE CountRun(n, idx + 1, isDescending, runLength + 1, s2, draws + 1)

\* arr with its first runLength elements reversed
ReverseRange(arr, runLength) ==
    [i \in 1..Len(arr) |-> IF i <= runLength THEN arr[runLength + 1 - i] ELSE arr[i]]

\* the first run of arr and its length
CountAndMakeRun(arr, seed) ==
    IF Len(arr) = 1 THEN [arr |-> arr, run |-> 1, seed |-> seed, draws |-> 0]
    ELSE LET s1 == NextSeed(seed)
             isDescending == OrderNegative(s1)
             r == CountRun(Len(arr), 2, isDescending, 2, s1, 1)
         IN  [arr |-> IF isDescending THEN ReverseRange(arr, r.run) ELSE arr,
              run |-> r.run, seed |-> r.seed, draws |-> r.draws]

\* the binary search for the place of the pivot in [left, right) (0-based)
RECURSIVE FindInsertion(_, _, _, _)
FindInsertion(left, right, seed, draws) ==
    IF left >= right THEN [left |-> left, seed |-> seed, draws |-> draws]
    ELSE LET mid == left + ((right - left) \div 2)
             s2 == NextSeed(seed)
         IN  IF OrderNegative(s2)
             THEN FindInsertion(left, mid, s2, draws + 1)
             ELSE FindInsertion(mid + 1, right, s2, draws + 1)

\* an insertion that stores the pivot without moving the elements after it
InsertAtNoShift(arr, start, left) ==
    [i \in 1..Len(arr) |-> IF i - 1 = left THEN arr[start + 1] ELSE arr[i]]

\* arr with the element at 0-based index start moved to 0-based index left <= start
InsertAt(arr, start, left) ==
    [i \in 1..Len(arr) |->
        IF i - 1 < left \/ i - 1 > start THEN arr[i]
        ELSE IF i - 1 = left THEN arr[start + 1]
        ELSE arr[i - 1]]

RECURSIVE BinaryInsertionSort(_, _, _, _)
BinaryInsertionSort(arr, start, seed, draws) ==
    IF start >= Len(arr) THEN [arr |-> arr, seed |-> seed, draws |-> draws]
    ELSE LET f == FindInsertion(0, start, seed, draws)
         IN  BinaryInsertionSort(InsertAt(arr, start, f.left), start + 1, f.seed, f.draws)

\* arr.sort(() => random() - 0.5) with the generator at seed
ShuffleSort(arr, seed) ==
    IF Len(arr) < 2 THEN [arr |-> arr, seed |-> seed, draws |-> 0]
    ELSE LET r == CountAndMakeRun(arr, seed)
         IN  BinaryInsertionSort(r.arr, r.run, r.seed, r.draws)

----------------------------------------------------------------------------
(* Lana-Vortex: encode.                                                    *)

\* '(function(){var p='
WrapperHead ==
    <<40, 102, 117, 110, 99, 116, 105, 111, 110, 40, 41, 123, 118, 97, 114, 32, 112, 61>>

\* ',m='
WrapperMapSep ==
    <<44, 109, 61>>

\* ',k=atob("'
WrapperKeySep ==
    <<44, 107, 61, 97, 116, 111, 98, 40, 34>>

\* '"),x=function(t,k){return t.split(\'\').map(function(c,i){return String.fromCharCode(c.charCodeAt(0)^k.charCodeAt(i%k.length))}).join(\'\')},d=new Array(p.length);p.forEach(function(e,i){var oi=m.indexOf(i);d[oi]=x(atob(e),k)});(new Function(d.join(\'\')))()})();'
WrapperTail ==
    <<34, 41, 44, 120, 61, 102, 117, 110, 99, 116, 105, 111, 110, 40, 116, 44, 107, 41, 123, 114, 101, 116, 117, 114, 110, 32, 116, 46, 115, 112, 108, 105, 116, 40, 39, 39, 41, 46, 109, 97, 112, 40, 102, 117, 110, 99, 116, 105, 111, 110, 40, 99, 44, 105, 41, 123, 114, 101, 116, 117, 114, 110, 32, 83, 116, 114, 105, 110, 103, 46, 102, 114, 111, 109, 67, 104, 97, 114, 67, 111, 100, 101, 40, 99, 46, 99, 104, 97, 114, 67, 111, 100, 101, 65, 116, 40, 48, 41, 94, 107, 46, 99, 104, 97, 114, 67, 111, 100, 101, 65, 116, 40, 105, 37, 107, 46, 108, 101, 110, 103, 116, 104, 41, 41, 125, 41, 46, 106, 111, 105, 110, 40, 39, 39, 41, 125, 44, 100, 61, 110, 101, 119, 32, 65, 114, 114, 97, 121, 40, 112, 46, 108, 101, 110, 103, 116, 104, 41, 59, 112, 46, 102, 111, 114, 69, 97, 99, 104, 40, 102, 117, 110, 99, 116, 105, 111, 110, 40, 101, 44, 105, 41, 123, 118, 97, 114, 32, 111, 105, 61, 109, 46, 105, 110, 100, 101, 120, 79, 102, 40, 105, 41, 59, 100, 91, 111, 105, 93, 61, 120, 40, 97, 116, 111, 98, 40, 101, 41, 44, 107, 41, 125, 41, 59, 40, 110, 101, 119, 32, 70, 117, 110, 99, 116, 105, 111, 110, 40, 100, 46, 106, 111, 105, 110, 40, 39, 39, 41, 41, 41, 40, 41, 125, 41, 40, 41, 59>>

\* 'Deobfuscation requires the original key. The result is a self-executing script.'
VortexEncodeLog ==
    <<68, 101, 111, 98, 102, 117, 115, 99, 97, 116, 105, 111, 110, 32, 114, 101, 113, 117, 105, 114, 101, 115, 32, 116, 104, 101, 32, 111, 114, 105, 103, 105, 110, 97, 108, 32, 107, 101, 121, 46, 32, 84, 104, 101, 32, 114, 101, 115, 117, 108, 116, 32, 105, 115, 32, 97, 32, 115, 101, 108, 102, 45, 101, 120, 101, 99, 117, 116, 105, 110, 103, 32, 115, 99, 114, 105, 112, 116, 46>>

\* 'Successfully deobfuscated with the provided key.'
VortexDecodeLog ==
    <<83, 117, 99, 99, 101, 115, 115, 102, 117, 108, 108, 121, 32, 100, 101, 111, 98, 102, 117, 115, 99, 97, 116, 101, 100, 32, 119, 105, 116, 104, 32, 116, 104, 101, 32, 112, 114, 111, 118, 105, 100, 101, 100, 32, 107, 101, 121, 46>>

\* the locals of an encode call that has not passed its input check
NoWork == [steps |-> <<>>]

\* the outcome of a call that threw
Thrown(message) == [ok |-> FALSE, result |-> <<>>, map |-> <<>>, error |-> message]

\* the outcome of a call that returned { result, map }
Returned(result, map) == [ok |-> TRUE, result |-> result, map |-> map, error |-> ""]

\* no call made yet
NoCall == [ok |-> FALSE, result |-> <<>>, map |-> <<>>, error |-> "no call"]

\* String.prototype.trim
RECURSIVE Trim(_)
Trim(text) ==
    IF Len(text) = 0 THEN text
    ELSE IF IsWhiteSpace(text[1]) THEN Trim(Tail(text))
    ELSE IF IsWhiteSpace(text[Len(text)]) THEN Trim(SubSeq(text, 1, Len(text) - 1))
    ELSE text

\* Math.max(2, Math.floor(key.length / 2))
ChunkSize(k) == Max(2, Len(k) \div 2)

\* the loop pushing code.substring(i, i + chunkSize) for i = 0, chunkSize, ...
Fragments(text, k) ==
    LET size == ChunkSize(k)
        n == (Len(text) + size - 1) \div size
    IN  [f \in 1..n |-> SubSeq(text, (f - 1) * size + 1, Min(f * size, Len(text)))]

\* fragments.map((_, i) => i)
IndexArray(n) == [i \in 1..n |-> i - 1]

\* the forEach building shuffledFragments: shuffledFragments[newIndex] = fragments[originalIndex]
ShuffledFragments(fragments, shuffledIndices) ==
    [newIndex \in 1..Len(shuffledIndices) |-> fragments[shuffledIndices[newIndex] + 1]]

\* a map stored the wrong way round: originalOrderMap[newIndex] = originalIndex
OriginalOrderMapSwapped(n, shuffledIndices) == shuffledIndices

\* the forEach building originalOrderMap: originalOrderMap[originalIndex] = newIndex.
\* An index the forEach never assigns stays a hole of new Array(n), written -1 here.
OriginalOrderMap(n, shuffledIndices) ==
    [originalIndex \in 1..n |->
        IF \E newIndex \in 1..Len(shuffledIndices) : shuffledIndices[newIndex] = originalIndex - 1
        THEN (CHOOSE newIndex \in 1..Len(shuffledIndices) :
                 /\ shuffledIndices[newIndex] = originalIndex - 1
                 /\ \A later \in (newIndex + 1)..Len(shuffledIndices) :
                        shuffledIndices[later] # originalIndex - 1) - 1
        ELSE -1]

\* the wrapper template with payload, orderMap and decoderKey filled in
Wrapper(payload, orderMap, decoderKey) ==
    WrapperHead \o payload \o WrapperMapSep \o orderMap
        \o WrapperKeySep \o decoderKey \o WrapperTail

\* the locals of encode once the shuffle is done (fragmentation and shuffling)
ShuffleLocals(fragments, sorted) ==
    [fragments |-> fragments,
     shuffledIndices |-> sorted.arr,
     shuffledFragments |-> ShuffledFragments(fragments, sorted.arr),
     originalOrderMap |-> OriginalOrderMap(Len(fragments), sorted.arr),
     seed |-> sorted.seed,
     draws |-> sorted.draws]

\* step 4 of encode: decoderKey = btoa(key) and the wrapper
VortexWrap(shuffled, encryptedFragments, k) ==
    IF BtoaThrows(k)
    THEN [out |-> Thrown("InvalidCharacterError"),
          work |-> [steps |-> <<"fragmentation", "shuffling", "cipher">>,
                    encryptedFragments |-> encryptedFragments] @@ shuffled]
    ELSE [out |-> Returned(Trim(Wrapper(StringifyStrings(encryptedFragments),
                                        StringifyNumbers(shuffled.originalOrderMap),
                                        btoa(k))),
                           VortexEncodeLog),
          work |-> [steps |-> <<"fragmentation", "shuffling", "cipher", "wrapper">>,
                    encryptedFragments |-> encryptedFragments] @@ shuffled]

\* step 3 of encode: shuffledFragments.map(frag => btoa(xorCipher(frag, key)))
VortexCipher(shuffled, xored, k) ==
    IF \E i \in 1..Len(xored) : BtoaThrows(xored[i])
    THEN [out |-> Thrown("InvalidCharacterError"),
          work |-> [steps |-> <<"fragmentation", "shuffling">>] @@ shuffled]
    ELSE VortexWrap(shuffled, [i \in 1..Len(xored) |-> btoa(xored[i])], k)

\* steps 1 and 2 of encode handed to step 3
VortexShuffled(shuffled, k) ==
    VortexCipher(shuffled,
                 [i \in 1..Len(shuffled.shuffledFragments) |->
                     xorCipher(shuffled.shuffledFragments[i], k)],
                 k)

\* the fragments of encode handed to the shuffle
VortexFragmented(fragments, k) ==
    VortexShuffled(
        ShuffleLocals(fragments, ShuffleSort(IndexArray(Len(fragments)), seededRandom(k))), k)

\* lanaVortex.encode(code, key): its outcome (out) and its locals (work)
VortexEncode(text, k) ==
    IF Len(text) = 0 \/ Len(k) = 0
    THEN [out |-> Thrown("Code and key cannot be empty for Lana-Vortex."), work |-> NoWork]
    ELSE VortexFragmented(Fragments(text, k), k)

----------------------------------------------------------------------------
(* Lana-Vortex: decode, and what the wrapper assembles when it runs.       *)

\* 'var p='
PayloadPattern ==
    <<118, 97, 114, 32, 112, 61>>

\* 'var m='
MapPattern ==
    <<118, 97, 114, 32, 109, 61>>

\* the match of prefix(\[.*?\]) starting at position i: the prefix, '[', then
\* the fewest characters other than line terminators up to a ']'
ArrayMatchesAt(text, prefix, i) ==
    /\ OccursAt(text, prefix, i)
    /\ i + Len(prefix) <= Len(text)
    /\ text[i + Len(prefix)] = 91
    /\ \E j \in (i + Len(prefix) + 1)..Len(text) :
           /\ text[j] = 93
           /\ \A m \in (i + Len(prefix) + 1)..(j - 1) : ~IsLineTerminator(text[m])

\* text.match(/prefix(\[.*?\])/) is not null
ArrayMatches(text, prefix) == \E i \in 1..Len(text) : ArrayMatchesAt(text, prefix, i)

\* the group (\[.*?\]) of the leftmost match
ArrayMatch(text, prefix) ==
    LET i == CHOOSE i \in 1..Len(text) :
                 /\ ArrayMatchesAt(text, prefix, i)
                 /\ \A h \in 1..(i - 1) : ~ArrayMatchesAt(text, prefix, h)
        open == i + Len(prefix)
        close == CHOOSE j \in (open + 1)..Len(text) :
                     /\ text[j] = 93
                     /\ \A m \in (open + 1)..(j - 1) : text[m] # 93
    IN  SubSeq(text, open, close)

\* array.indexOf(v): the first 0-based index holding v, or -1
IndexOf(arr, v) ==
    IF \E i \in 1..Len(arr) : arr[i] = v
    THEN (CHOOSE i \in 1..Len(arr) : arr[i] = v /\ \A h \in 1..(i - 1) : arr[h] # v) - 1
    ELSE -1

\* the array d (or originalFragments) after the forEach storing
\* decrypted[i] at index indexOf(i) of a new Array(n), joined with ''.
\* A store at index -1 sets no element; an element never stored joins as ''.
JoinByMap(decrypted, orderMap) ==
    LET n == Len(decrypted)
        size == Max(n, Len(orderMap))
        lastAt(oi) == CHOOSE i \in 1..n :
                          /\ IndexOf(orderMap, i - 1) = oi
                          /\ \A later \in (i + 1)..n : IndexOf(orderMap, later - 1) # oi
    IN  Concat([slot \in 1..size |->
                   IF \E i \in 1..n : IndexOf(orderMap, i - 1) = slot - 1
                   THEN decrypted[lastAt(slot - 1)]
                   ELSE <<>>])

DecodingFailed == "Decoding failed. The key might be incorrect or the code is corrupted. "

\* the forEach of decode without its check of the index found
VortexReorderUnchecked(payload, orderMap, k) ==
    IF \E i \in 1..Len(payload) : AtobThrows(payload[i])
    THEN Thrown(DecodingFailed \o "InvalidCharacterError")
    ELSE Returned(JoinByMap([i \in 1..Len(payload) |-> xorCipher(atob(payload[i]), k)],
                            orderMap),
                  VortexDecodeLog)

\* the forEach of decode and its result, once payload and orderMap are parsed
VortexReorder(payload, orderMap, k) ==
    IF \E i \in 1..Len(payload) : AtobThrows(payload[i])
    THEN Thrown(DecodingFailed \o "InvalidCharacterError")
    ELSE IF \E i \in 1..Len(payload) : IndexOf(orderMap, i - 1) = -1
    THEN Thrown(DecodingFailed \o "Map is inconsistent. Cannot find original index.")
    ELSE Returned(JoinByMap([i \in 1..Len(payload) |-> xorCipher(atob(payload[i]), k)],
                            orderMap),
                  VortexDecodeLog)

\* JSON.parse of the two matched groups
VortexParse(payloadText, mapText, k) ==
    IF ~ParsesAsStrings(payloadText) \/ ~ParsesAsNumbers(mapText)
    THEN Thrown(DecodingFailed \o "SyntaxError")
    ELSE VortexReorder(ParseStrings(payloadText), ParseNumbers(mapText), k)

\* lanaVortex.decode(encodedCode, key)
VortexDecode(encodedCode, k) ==
    IF Len(encodedCode) = 0 \/ Len(k) = 0
    THEN Thrown("Encoded code and key are required for decoding.")
    ELSE IF ~ArrayMatches(encodedCode, PayloadPattern) \/ ~ArrayMatches(encodedCode, MapPattern)
    THEN Thrown(DecodingFailed \o "Invalid Lana-Vortex format. Cannot find payload or map.")
    ELSE VortexParse(ArrayMatch(encodedCode, PayloadPattern),
                     ArrayMatch(encodedCode, MapPattern), k)

\* the first position >= from at which text holds c, or Len(text) + 1
RECURSIVE FirstAtOrAfter(_, _, _)
FirstAtOrAfter(text, c, from) ==
    IF from > Len(text) THEN Len(text) + 1
    ELSE IF text[from] = c THEN from
    ELSE FirstAtOrAfter(text, c, from + 1)

\* the wrapper read from position kOpen on: the string in atob("...")
WrapperKeyLiteral(artifact, p, m, kOpen) ==
    [p |-> p, m |-> m,
     k |-> SubSeq(artifact, kOpen, FirstAtOrAfter(artifact, 34, kOpen) - 1)]

\* the wrapper read from position mOpen on: the array after ',m='
WrapperMapLiteral(artifact, p, mOpen, mClose) ==
    WrapperKeyLiteral(artifact, p, ParseNumbers(SubSeq(artifact, mOpen, mClose)),
                      mClose + Len(WrapperKeySep) + 1)

\* the wrapper read from position pOpen on: the array after 'var p='
WrapperPayloadLiteral(artifact, pOpen, pClose) ==
    WrapperMapLiteral(artifact, ParseStrings(SubSeq(artifact, pOpen, pClose)),
                      pClose + Len(WrapperMapSep) + 1,
                      FirstAtOrAfter(artifact, 93, pClose + Len(WrapperMapSep) + 1))

\* the three literals of a wrapper as the JavaScript parser reads them: the
\* array after 'var p=', the array after ',m=' and the string in atob("...")
WrapperLiterals(artifact) ==
    WrapperPayloadLiteral(artifact, Len(WrapperHead) + 1,
                          FirstAtOrAfter(artifact, 93, Len(WrapperHead) + 1))

\* the wrapper's forEach: d[m.indexOf(i)] = x(atob(e), k), then d.join('')
WrapperRun(p, m, k) ==
    JoinByMap([i \in 1..Len(p) |-> xorCipher(atob(p[i]), k)], m)

\* d.join('') as the wrapper computes it when the artifact is executed
WrapperJoin(lit) == WrapperRun(lit.p, lit.m, atob(lit.k))

WrapperAssembles(artifact) == WrapperJoin(WrapperLiterals(artifact))

----------------------------------------------------------------------------
(* String Conceal: encode.                                                 *)

\* the xorCipher of string-conceal.js, the same function as Lana-Vortex's
stringConcealXorCipher(text, k) == xorCipher(text, k)

RECURSIVE LiteralBodyEnd(_, _, _)
\* the body (?:[^q\\]|\\.)* of a literal opened by the quote q, matched from
\* position j: the position of the closing quote, or 0 when the body runs
\* into the end of the text or into a backslash that '.' cannot follow
LiteralBodyEnd(text, q, j) ==
    IF j > Len(text) THEN 0
    ELSE IF text[j] = q THEN j
    ELSE IF text[j] = 92
    THEN IF j + 1 <= Len(text) /\ ~IsLineTerminator(text[j + 1])
         THEN LiteralBodyEnd(text, q, j + 2)
         ELSE 0
    ELSE LiteralBodyEnd(text, q, j + 1)

\* stringRegex matches at position i: the position of the closing quote, or 0
LiteralEnd(text, i) ==
    IF text[i] = 34 \/ text[i] = 39 THEN LiteralBodyEnd(text, text[i], i + 1) ELSE 0

\* '__DECRYPT_PLACEHOLDER__('
PlaceholderOpen ==
    <<95, 95, 68, 69, 67, 82, 89, 80, 84, 95, 80, 76, 65, 67, 69, 72, 79, 76, 68, 69, 82, 95, 95, 40>>

\* `__DECRYPT_PLACEHOLDER__(${stringIndex})`
Placeholder(stringIndex) == PlaceholderOpen \o DecimalDigits(stringIndex) \o <<41>>

RECURSIVE StringScan(_, _, _, _)
\* code.replace(stringRegex, callback) from position i on: the strings pushed
\* and the text with each match replaced by its placeholder
StringScan(text, i, strings, out) ==
    IF i > Len(text) THEN [strings |-> strings, code |-> out]
    ELSE IF LiteralEnd(text, i) > 0
    THEN StringScan(text, LiteralEnd(text, i) + 1,
                    Append(strings, SubSeq(text, i + 1, LiteralEnd(text, i) - 1)),
                    out \o Placeholder(Len(strings)))
    ELSE StringScan(text, i + 1, strings, Append(out, text[i]))

\* the first ')' after a placeholder opening at i that '.*?' can reach, or 0
PlaceholderClose(text, i) ==
    IF \E j \in (i + Len(PlaceholderOpen))..Len(text) :
           /\ text[j] = 41
           /\ \A m \in (i + Len(PlaceholderOpen))..(j - 1) : ~IsLineTerminator(text[m])
    THEN FirstAtOrAfter(text, 41, i + Len(PlaceholderOpen))
    ELSE 0

RECURSIVE ReplacePlaceholders(_, _, _, _)
\* codeWithoutStrings.replace(/__DECRYPT_PLACEHOLDER__\((.*?)\)/g, `${funcName}($1)`)
ReplacePlaceholders(text, i, funcName, out) ==
    IF i > Len(text) THEN out
    ELSE IF OccursAt(text, PlaceholderOpen, i) /\ PlaceholderClose(text, i) > 0
    THEN ReplacePlaceholders(text, PlaceholderClose(text, i) + 1, funcName,
             out \o funcName \o <<40>>
                 \o SubSeq(text, i + Len(PlaceholderOpen), PlaceholderClose(text, i) - 1)
                 \o <<41>>)
    ELSE ReplacePlaceholders(text, i + 1, funcName, Append(out, text[i]))

\* 'var '
VarKeyword ==
    <<118, 97, 114, 32>>

\* '=function(i){var k="'
DecoderKeyOpen ==
    <<61, 102, 117, 110, 99, 116, 105, 111, 110, 40, 105, 41, 123, 118, 97, 114, 32, 107, 61, 34>>

\* '";return atob('
DecoderKeyClose ==
    <<34, 59, 114, 101, 116, 117, 114, 110, 32, 97, 116, 111, 98, 40>>

\* '[i]).split(\'\').map(function(c,j){return String.fromCharCode(c.charCodeAt(0)^atob(k).charCodeAt(j%atob(k).length))}).join(\'\')};'
DecoderTail ==
    <<91, 105, 93, 41, 46, 115, 112, 108, 105, 116, 40, 39, 39, 41, 46, 109, 97, 112, 40, 102, 117, 110, 99, 116, 105, 111, 110, 40, 99, 44, 106, 41, 123, 114, 101, 116, 117, 114, 110, 32, 83, 116, 114, 105, 110, 103, 46, 102, 114, 111, 109, 67, 104, 97, 114, 67, 111, 100, 101, 40, 99, 46, 99, 104, 97, 114, 67, 111, 100, 101, 65, 116, 40, 48, 41, 94, 97, 116, 111, 98, 40, 107, 41, 46, 99, 104, 97, 114, 67, 111, 100, 101, 65, 116, 40, 106, 37, 97, 116, 111, 98, 40, 107, 41, 46, 108, 101, 110, 103, 116, 104, 41, 41, 125, 41, 46, 106, 111, 105, 110, 40, 39, 39, 41, 125, 59>>

\* the template literal decoderLogic
DecoderLogic(arrayName, funcName, arrayJson, encodedKey) ==
    VarKeyword \o arrayName \o <<61>> \o arrayJson \o <<59>>
        \o VarKeyword \o funcName \o DecoderKeyOpen \o encodedKey \o DecoderKeyClose
        \o arrayName \o DecoderTail

\* 'No strings found to conceal.'
NoStringsLog ==
    <<78, 111, 32, 115, 116, 114, 105, 110, 103, 115, 32, 102, 111, 117, 110, 100, 32, 116, 111, 32, 99, 111, 110, 99, 101, 97, 108, 46>>

\* `Concealed ${n} strings. Deobfuscation can reveal the strings but not
\* reconstruct the code automatically.`
ConcealedLog(n) ==
    <<67, 111, 110, 99, 101, 97, 108, 101, 100, 32>>
        \o DecimalDigits(n)
        \o <<32, 115, 116, 114, 105, 110, 103, 115, 46, 32, 68, 101, 111, 98, 102, 117, 115, 99, 97, 116, 105, 111, 110, 32, 99, 97, 110, 32, 114, 101, 118, 101, 97, 108, 32, 116, 104, 101, 32, 115, 116, 114, 105, 110, 103, 115, 32, 98, 117, 116, 32, 110, 111, 116, 32, 114, 101, 99, 111, 110, 115, 116, 114, 117, 99, 116, 32, 116, 104, 101, 32, 99, 111, 100, 101, 32, 97, 117, 116, 111, 109, 97, 116, 105, 99, 97, 108, 108, 121, 46>>

\* Math.random().toString(36).substring(2, 6) for the draws 0, 1/8 and 1/128:
\* '', '4i', '0a4i'
NameSuffixes ==
    {<<>>, <<52, 105>>, <<48, 97, 52, 105>>}

\* the prelude and the final code, once the strings are encrypted
ConcealPrelude(scan, encryptedStrings, k, arrayName, funcName) ==
    IF BtoaThrows(k)
    THEN [out |-> Thrown("InvalidCharacterError"),
          work |-> [steps |-> <<"extract", "encrypt">>, strings |-> scan.strings,
                    codeWithoutStrings |-> scan.code,
                    encryptedStrings |-> encryptedStrings,
                    arrayName |-> arrayName, funcName |-> funcName]]
    ELSE [out |-> Returned(DecoderLogic(arrayName, funcName,
                                        StringifyStrings(encryptedStrings), btoa(k))
                               \o ReplacePlaceholders(scan.code, 1, funcName, <<>>),
                           ConcealedLog(Len(scan.strings))),
          work |-> [steps |-> <<"extract", "encrypt", "prelude">>,
                    strings |-> scan.strings,
                    codeWithoutStrings |-> scan.code,
                    encryptedStrings |-> encryptedStrings,
                    arrayName |-> arrayName, funcName |-> funcName]]

\* strings.map(s => btoa(xorCipher(s, key)))
ConcealEncrypt(scan, xored, k, arrayName, funcName) ==
    IF \E i \in 1..Len(xored) : BtoaThrows(xored[i])
    THEN [out |-> Thrown("InvalidCharacterError"),
          work |-> [steps |-> <<"extract">>, strings |-> scan.strings,
                    codeWithoutStrings |-> scan.code]]
    ELSE ConcealPrelude(scan, [i \in 1..Len(xored) |-> btoa(xored[i])], k,
                        arrayName, funcName)

\* an encode that builds the prelude whether or not a string was found
ConcealExtractedAlways(text, scan, k, arrayName, funcName) ==
    ConcealEncrypt(scan,
                   [i \in 1..Len(scan.strings) |-> stringConcealXorCipher(scan.strings[i], k)],
                   k, arrayName, funcName)

\* encode after the first pass: the early return when no string was found
ConcealExtracted(text, scan, k, arrayName, funcName) ==
    IF Len(scan.strings) = 0
    THEN [out |-> Returned(text, NoStringsLog),
          work |-> [steps |-> <<"extract">>, strings |-> scan.strings,
                    codeWithoutStrings |-> scan.code]]
    ELSE ConcealEncrypt(scan,
                        [i \in 1..Len(scan.strings) |->
                            stringConcealXorCipher(scan.strings[i], k)],
                        k, arrayName, funcName)

\* an encode without the input check
ConcealEncodeUnchecked(text, k, arraySuffix, funcSuffix) ==
    ConcealExtracted(text, StringScan(text, 1, <<>>, <<>>), k,
                     <<95, 83>> \o arraySuffix, <<95, 68>> \o funcSuffix)

\* stringConceal.encode(code, key), with the two Math.random() suffixes
ConcealEncode(text, k, arraySuffix, funcSuffix) ==
    IF Len(k) = 0
    THEN [out |-> Thrown("A secret key is required for String Concealment."),
          work |-> NoWork]
    ELSE ConcealExtracted(text, StringScan(text, 1, <<>>, <<>>), k,
                          <<95, 83>> \o arraySuffix, <<95, 68>> \o funcSuffix)

----------------------------------------------------------------------------
(* String Conceal: decode.                                                 *)

\* 'var _S'
ArrayNamePattern ==
    <<118, 97, 114, 32, 95, 83>>

\* 'var k="'
KeyPattern ==
    <<118, 97, 114, 32, 107, 61, 34>>

RECURSIVE AlnumRunEnd(_, _)
\* the position after the longest run of [a-zA-Z0-9] from position i
AlnumRunEnd(text, i) ==
    IF i <= Len(text) /\ IsAlnum(text[i]) THEN AlnumRunEnd(text, i + 1) ELSE i

\* 'var (_S[a-zA-Z0-9]+)=(\[' matches at position i: the position of '[', or 0
ArrayOpenAt(text, i) ==
    IF OccursAt(text, ArrayNamePattern, i)
    THEN LET e == AlnumRunEnd(text, i + Len(ArrayNamePattern))
         IN  IF /\ e > i + Len(ArrayNamePattern)
                /\ e + 1 <= Len(text)
                /\ text[e] = 61
                /\ text[e + 1] = 91
             THEN e + 1
             ELSE 0
    ELSE 0

\* '.*?\]);' after the '[' at open: the position of the first ']' that is
\* followed by ';' and reached without crossing a line terminator, or 0
ArrayCloseFrom(text, open) ==
    LET closes(j) == /\ text[j] = 93
                     /\ text[j + 1] = 59
                     /\ \A m \in (open + 1)..(j - 1) : ~IsLineTerminator(text[m])
    IN  IF \E j \in (open + 1)..(Len(text) - 1) : closes(j)
        THEN CHOOSE j \in (open + 1)..(Len(text) - 1) :
                 closes(j) /\ \A h \in (open + 1)..(j - 1) : ~closes(h)
        ELSE 0

\* the array regex matches at position i
ConcealArrayMatchesAt(text, i) ==
    ArrayOpenAt(text, i) > 0 /\ ArrayCloseFrom(text, ArrayOpenAt(text, i)) > 0

\* code.match(/var (_S[a-zA-Z0-9]+)=(\[.*?\]);/) is not null
ConcealArrayMatches(text) == \E i \in 1..Len(text) : ConcealArrayMatchesAt(text, i)

\* arrayMatch[2] of the leftmost match
ConcealArrayMatch(text) ==
    LET i == CHOOSE i \in 1..Len(text) :
                 /\ ConcealArrayMatchesAt(text, i)
                 /\ \A h \in 1..(i - 1) : ~ConcealArrayMatchesAt(text, h)
        open == ArrayOpenAt(text, i)
    IN  SubSeq(text, open, ArrayCloseFrom(text, open))

\* [a-zA-Z0-9=]
IsKeyChar(c) == IsAlnum(c) \/ c = 61

RECURSIVE KeyRunEnd(_, _)
\* the position after the longest run of [a-zA-Z0-9=] from position i
KeyRunEnd(text, i) ==
    IF i <= Len(text) /\ IsKeyChar(text[i]) THEN KeyRunEnd(text, i + 1) ELSE i

\* /var k="([a-zA-Z0-9=]+)";/ matches at position i
KeyMatchesAt(text, i) ==
    /\ OccursAt(text, KeyPattern, i)
    /\ LET e == KeyRunEnd(text, i + Len(KeyPattern))
       IN  /\ e > i + Len(KeyPattern)
           /\ e + 1 <= Len(text)
           /\ text[e] = 34
           /\ text[e + 1] = 59

\* code.match(/var k="([a-zA-Z0-9=]+)";/) is not null
KeyMatches(text) == \E i \in 1..Len(text) : KeyMatchesAt(text, i)

\* keyMatch[1] of the leftmost match
KeyMatch(text) ==
    LET i == CHOOSE i \in 1..Len(text) :
                 KeyMatchesAt(text, i) /\ \A h \in 1..(i - 1) : ~KeyMatchesAt(text, h)
    IN  SubSeq(text, i + Len(KeyPattern), KeyRunEnd(text, i + Len(KeyPattern)) - 1)

RevealFailed == "Failed to reveal strings. "

\* 'Revealed strings from the concealed array:\n\n'
RevealHeader ==
    <<82, 101, 118, 101, 97, 108, 101, 100, 32, 115, 116, 114, 105, 110, 103, 115, 32, 102, 114, 111, 109, 32, 116, 104, 101, 32, 99, 111, 110, 99, 101, 97, 108, 101, 100, 32, 97, 114, 114, 97, 121, 58, 10, 10>>

\* '// Code cannot be automatically reconstructed.\n// See the map/log for the
\* list of revealed strings.'
ReconstructionNote ==
    <<47, 47, 32, 67, 111, 100, 101, 32, 99, 97, 110, 110, 111, 116, 32, 98, 101, 32, 97, 117, 116, 111, 109, 97, 116, 105, 99, 97, 108, 108, 121, 32, 114, 101, 99, 111, 110, 115, 116, 114, 117, 99, 116, 101, 100, 46, 10, 47, 47, 32, 83, 101, 101, 32, 116, 104, 101, 32, 109, 97, 112, 47, 108, 111, 103, 32, 102, 111, 114, 32, 116, 104, 101, 32, 108, 105, 115, 116, 32, 111, 102, 32, 114, 101, 118, 101, 97, 108, 101, 100, 32, 115, 116, 114, 105, 110, 103, 115, 46>>

\* the log of decode: the header, then `${i}: "${s}"` for each string, joined by '\n'
RevealLog(strings) ==
    RevealHeader
        \o JoinWith([i \in 1..Len(strings) |->
                        DecimalDigits(i - 1) \o <<58, 32, 34>> \o strings[i] \o <<34>>],
                    <<10>>)

\* the key check and the decryption, once the array is parsed
ConcealReveal(encryptedStrings, encodedKey, k) ==
    IF BtoaThrows(k)
    THEN Thrown(RevealFailed \o "InvalidCharacterError")
    ELSE IF btoa(k) # encodedKey
    THEN Thrown(RevealFailed \o "The provided key is incorrect.")
    ELSE IF \E i \in 1..Len(encryptedStrings) : AtobThrows(encryptedStrings[i])
    THEN Thrown(RevealFailed \o "InvalidCharacterError")
    ELSE Returned(ReconstructionNote,
                  RevealLog([i \in 1..Len(encryptedStrings) |->
                                stringConcealXorCipher(atob(encryptedStrings[i]), k)]))

\* JSON.parse(arrayMatch[2]); the arrays an artifact of encode embeds are
\* arrays of base64 strings
ConcealParse(arrayText, encodedKey, k) ==
    IF ~ParsesAsStrings(arrayText)
    THEN Thrown(RevealFailed \o "SyntaxError")
    ELSE ConcealReveal(ParseStrings(arrayText), encodedKey, k)

\* stringConceal.decode(code, key)
ConcealDecode(artifact, k) ==
    IF Len(k) = 0
    THEN Thrown("A secret key is required to reveal strings.")
    ELSE IF ~ConcealArrayMatches(artifact) \/ ~KeyMatches(artifact)
    THEN Thrown(RevealFailed
                    \o "Could not find the concealed string array or key in the code.")
    ELSE ConcealParse(ConcealArrayMatch(artifact), KeyMatch(artifact), k)

----------------------------------------------------------------------------
(* Lexical Scramble: getIdentifiers and generateName.                      *)

\* the first position >= from that holds a line terminator, or Len(text) + 1
RECURSIVE FirstLineTerminator(_, _)
FirstLineTerminator(text, from) ==
    IF from > Len(text) THEN Len(text) + 1
    ELSE IF IsLineTerminator(text[from]) THEN from
    ELSE FirstLineTerminator(text, from + 1)

\* /\/\*[\s\S]*?\*\/|\/\/.*/ matches at position i: the position of the last
\* character of the match, or 0
CommentEnd(text, i) ==
    IF OccursAt(text, <<47, 42>>, i)
           /\ \E j \in (i + 2)..(Len(text) - 1) : OccursAt(text, <<42, 47>>, j)
    THEN 1 + CHOOSE j \in (i + 2)..(Len(text) - 1) :
                 /\ OccursAt(text, <<42, 47>>, j)
                 /\ \A h \in (i + 2)..(j - 1) : ~OccursAt(text, <<42, 47>>, h)
    ELSE IF OccursAt(text, <<47, 47>>, i)
    THEN FirstLineTerminator(text, i + 2) - 1
    ELSE 0

RECURSIVE StripComments(_, _, _)
\* text.replace(/\/\*[\s\S]*?\*\/|\/\/.*/g, '') from position i on
StripComments(text, i, out) ==
    IF i > Len(text) THEN out
    ELSE IF CommentEnd(text, i) > 0
    THEN StripComments(text, CommentEnd(text, i) + 1, out)
    ELSE StripComments(text, i + 1, Append(out, text[i]))

RECURSIVE QuotedEnd(_, _, _)
\* (?:(?=(\\?))\2.)*?\1 from position j, for the opening quote q: the closing
\* quote is tried first; otherwise one character other than a line terminator
\* is consumed, together with the backslash in front of it if there is one.
\* The result is the position of the closing quote, or 0.
QuotedEnd(text, q, j) ==
    IF j > Len(text) THEN 0
    ELSE IF text[j] = q THEN j
    ELSE IF text[j] = 92
    THEN IF j + 1 <= Len(text) /\ ~IsLineTerminator(text[j + 1])
         THEN QuotedEnd(text, q, j + 2)
         ELSE 0
    ELSE IF IsLineTerminator(text[j]) THEN 0
    ELSE QuotedEnd(text, q, j + 1)

\* /(["'`])(?:(?=(\\?))\2.)*?\1/ matches at position i: the position of the
\* closing quote, or 0
StringEnd(text, i) ==
    IF text[i] \in {34, 39, 96} THEN QuotedEnd(text, text[i], i + 1) ELSE 0

RECURSIVE StripStrings(_, _, _)
\* text.replace(/(["'`])(?:(?=(\\?))\2.)*?\1/g, '') from position i on
StripStrings(text, i, out) ==
    IF i > Len(text) THEN out
    ELSE IF StringEnd(text, i) > 0
    THEN StripStrings(text, StringEnd(text, i) + 1, out)
    ELSE StripStrings(text, i + 1, Append(out, text[i]))

\* cleanCode of getIdentifiers
CleanCode(text) == StripStrings(StripComments(text, 1, <<>>), 1, <<>>)

\* the keywords that getIdentifiers does not rename:
\* break, case, catch, continue, debugger, default, delete, do, else,
\* finally, for, function, if, in, instanceof, new, return, switch,
\* this, throw, try, typeof, var, let, const, void, while,
\* with, class, enum, export, extends, import, super, implements, interface,
\* package, private, protected, public, static, yield, await, null, true,
\* false, undefined, document, window, console
Keywords ==
    {<<98, 114, 101, 97, 107>>,
     <<99, 97, 115, 101>>,
     <<99, 97, 116, 99, 104>>,
     <<99, 111, 110, 116, 105, 110, 117, 101>>,
     <<100, 101, 98, 117, 103, 103, 101, 114>>,
     <<100, 101, 102, 97, 117, 108, 116>>,
     <<100, 101, 108, 101, 116, 101>>,
     <<100, 111>>,
     <<101, 108, 115, 101>>,
     <<102, 105, 110, 97, 108, 108, 121>>,
     <<102, 111, 114>>,
     <<102, 117, 110, 99, 116, 105, 111, 110>>,
     <<105, 102>>,
     <<105, 110>>,
     <<105, 110, 115, 116, 97, 110, 99, 101, 111, 102>>,
     <<110, 101, 119>>,
     <<114, 101, 116, 117, 114, 110>>,
     <<115, 119, 105, 116, 99, 104>>,
     <<116, 104, 105, 115>>,
     <<116, 104, 114, 111, 119>>,
     <<116, 114, 121>>,
     <<116, 121, 112, 101, 111, 102>>,
     <<118, 97, 114>>,
     <<108, 101, 116>>,
     <<99, 111, 110, 115, 116>>,
     <<118, 111, 105, 100>>,
     <<119, 104, 105, 108, 101>>,
     <<119, 105, 116, 104>>,
     <<99, 108, 97, 115, 115>>,
     <<101, 110, 117, 109>>,
     <<101, 120, 112, 111, 114, 116>>,
     <<101, 120, 116, 101, 110, 100, 115>>,
     <<105, 109, 112, 111, 114, 116>>,
     <<115, 117, 112, 101, 114>>,
     <<105, 109, 112, 108, 101, 109, 101, 110, 116, 115>>,
     <<105, 110, 116, 101, 114, 102, 97, 99, 101>>,
     <<112, 97, 99, 107, 97, 103, 101>>,
     <<112, 114, 105, 118, 97, 116, 101>>,
     <<112, 114, 111, 116, 101, 99, 116, 101, 100>>,
     <<112, 117, 98, 108, 105, 99>>,
     <<115, 116, 97, 116, 105, 99>>,
     <<121, 105, 101, 108, 100>>,
     <<97, 119, 97, 105, 116>>,
     <<110, 117, 108, 108>>,
     <<116, 114, 117, 101>>,
     <<102, 97, 108, 115, 101>>,
     <<117, 110, 100, 101, 102, 105, 110, 101, 100>>,
     <<100, 111, 99, 117, 109, 101, 110, 116>>,
     <<119, 105, 110, 100, 111, 119>>,
     <<99, 111, 110, 115, 111, 108, 101>>}

\* [a-zA-Z_$]
IsIdentifierStart(c) ==
    (c >= 65 /\ c <= 90) \/ (c >= 97 /\ c <= 122) \/ c = 95 \/ c = 36

\* [a-zA-Z0-9_$]
IsIdentifierPart(c) == IsIdentifierStart(c) \/ (c >= 48 /\ c <= 57)

RECURSIVE IdentifierEnd(_, _)
\* the position of the last character of the run [a-zA-Z0-9_$]* after position i
IdentifierEnd(text, i) ==
    IF i + 1 <= Len(text) /\ IsIdentifierPart(text[i + 1])
    THEN IdentifierEnd(text, i + 1)
    ELSE i

RECURSIVE IdentifierMatches(_, _, _)
\* the successive matches of identifierRegex.exec(text) from position i on
IdentifierMatches(text, i, out) ==
    IF i > Len(text) THEN out
    ELSE IF IsIdentifierStart(text[i])
    THEN IdentifierMatches(text, IdentifierEnd(text, i) + 1,
                           Append(out, SubSeq(text, i, IdentifierEnd(text, i))))
    ELSE IdentifierMatches(text, i + 1, out)

RECURSIVE AddIdentifiers(_, _, _)
\* the while loop of getIdentifiers: the matches that are no keyword, each
\* once, in the order of their first match (the order a Set iterates in)
AddIdentifiers(matches, i, identifiers) ==
    IF i > Len(matches) THEN identifiers
    ELSE IF matches[i] \in Keywords
              \/ \E h \in 1..Len(identifiers) : identifiers[h] = matches[i]
    THEN AddIdentifiers(matches, i + 1, identifiers)
    ELSE AddIdentifiers(matches, i + 1, Append(identifiers, matches[i]))

\* getIdentifiers(code)
getIdentifiers(text) ==
    AddIdentifiers(IdentifierMatches(CleanCode(text), 1, <<>>), 1, <<>>)

\* 'abcdefghijklmnopqrstuvwxyzABCDEFGHIJKLMNOPQRSTUVWXYZ_'
NameAlphabet ==
    <<97, 98, 99, 100, 101, 102, 103, 104, 105, 106, 107, 108, 109, 110, 111, 112, 113, 114, 115, 116, 117, 118, 119, 120, 121, 122, 65, 66, 67, 68, 69, 70, 71, 72, 73, 74, 75, 76, 77, 78, 79, 80, 81, 82, 83, 84, 85, 86, 87, 88, 89, 90, 95>>

RECURSIVE GenerateNameFrom(_, _)
\* the do-while loop of generateName
GenerateNameFrom(n, name) ==
    IF (n \div Len(NameAlphabet)) - 1 >= 0
    THEN GenerateNameFrom((n \div Len(NameAlphabet)) - 1,
                          <<NameAlphabet[(n % Len(NameAlphabet)) + 1]>> \o name)
    ELSE <<NameAlphabet[(n % Len(NameAlphabet)) + 1]>> \o name

RECURSIVE GenerateNameFrom52(_, _)
\* the loop of generateName with 52 in the place of alphabet.length
GenerateNameFrom52(n, name) ==
    IF (n \div 52) - 1 >= 0
    THEN GenerateNameFrom52((n \div 52) - 1, <<NameAlphabet[(n % 52) + 1]>> \o name)
    ELSE <<NameAlphabet[(n % 52) + 1]>> \o name

\* a generator that numbers in base 52
generateNameBase52(n) == GenerateNameFrom52(n, <<>>)

\* generateName(n)
generateName(n) == GenerateNameFrom(n, <<>>)

----------------------------------------------------------------------------
(* Lexical Scramble: encode.                                               *)

RECURSIVE SortByLengthDesc(_, _)
\* entries.sort((a, b) => length(b) - length(a)), a stable sort: the entries
\* by descending Len(entry[at]), entries of equal length in their former order
SortByLengthDesc(entries, at) ==
    IF Len(entries) = 0 THEN <<>>
    ELSE LET first == CHOOSE i \in 1..Len(entries) :
                          /\ \A j \in 1..Len(entries) :
                                 Len(entries[j][at]) <= Len(entries[i][at])
                          /\ \A h \in 1..(i - 1) :
                                 Len(entries[h][at]) < Len(entries[i][at])
         IN  <<entries[first]>>
                 \o SortByLengthDesc([j \in 1..(Len(entries) - 1) |->
                                         IF j < first THEN entries[j] ELSE entries[j + 1]],
                                     at)

\* \b holds in front of position p: exactly one of the characters on its two
\* sides is a word character
WordBoundary(text, p) ==
    (p - 1 >= 1 /\ p - 1 <= Len(text) /\ IsWordChar(text[p - 1]))
        # (p >= 1 /\ p <= Len(text) /\ IsWordChar(text[p]))

RECURSIVE PatternEnd(_, _, _, _)
\* the pattern name[k..] matched at position pos, the characters of a name
\* being literals except '$', which asserts the end of the text: the position
\* after the match, or 0
PatternEnd(text, name, k, pos) ==
    IF k > Len(name) THEN pos
    ELSE IF name[k] = 36
    THEN IF pos = Len(text) + 1 THEN PatternEnd(text, name, k + 1, pos) ELSE 0
    ELSE IF pos <= Len(text) /\ text[pos] = name[k]
    THEN PatternEnd(text, name, k + 1, pos + 1)
    ELSE 0

\* new RegExp(`\\b${name}\\b`) matches at position i: the position after the
\* match, or 0
WordMatchEnd(text, name, i) ==
    IF WordBoundary(text, i)
           /\ PatternEnd(text, name, 1, i) > 0
           /\ WordBoundary(text, PatternEnd(text, name, 1, i))
    THEN PatternEnd(text, name, 1, i)
    ELSE 0

\* the character of text at position i, as a string; '' past the end
CharAt(text, i) == IF i <= Len(text) THEN <<text[i]>> ELSE <<>>

RECURSIVE ReplaceWord(_, _, _, _, _)
\* text.replace(new RegExp(`\\b${name}\\b`, 'g'), replacement) from position
\* i on, replacement being inserted as it is; after an empty match the search
\* goes on one character further
ReplaceWord(text, name, replacement, i, out) ==
    IF i > Len(text) + 1 THEN out
    ELSE IF WordMatchEnd(text, name, i) > i
    THEN ReplaceWord(text, name, replacement, WordMatchEnd(text, name, i),
                     out \o replacement)
    ELSE IF WordMatchEnd(text, name, i) = i
    THEN ReplaceWord(text, name, replacement, i + 1,
                     out \o replacement \o CharAt(text, i))
    ELSE ReplaceWord(text, name, replacement, i + 1, out \o CharAt(text, i))

RECURSIVE RenameAll(_, _, _)
\* the forEach of encode from the identifier of index i on
RenameAll(scrambledCode, identifiers, i) ==
    IF i > Len(identifiers) THEN scrambledCode
    ELSE RenameAll(ReplaceWord(scrambledCode, identifiers[i][1], generateName(i - 1),
                               1, <<>>),
                   identifiers, i + 1)

RECURSIVE CollapseWhitespace(_, _, _)
\* text.replace(/\s+/g, ' ') from position i on
CollapseWhitespace(text, i, out) ==
    IF i > Len(text) THEN out
    ELSE IF IsWhiteSpace(text[i])
    THEN IF i > 1 /\ IsWhiteSpace(text[i - 1])
         THEN CollapseWhitespace(text, i + 1, out)
         ELSE CollapseWhitespace(text, i + 1, Append(out, 32))
    ELSE CollapseWhitespace(text, i + 1, Append(out, text[i]))

\* the minify step of encode
Minify(text) == CollapseWhitespace(StripComments(text, 1, <<>>), 1, <<>>)

\* JSON.stringify(Object.fromEntries(nameMap), null, 2); the names need no escaping
StringifyTable(nameMap) ==
    IF Len(nameMap) = 0 THEN <<123, 125>>
    ELSE <<123, 10>>
             \o JoinWith([i \in 1..Len(nameMap) |->
                             <<32, 32, 34>> \o nameMap[i][1] \o <<34, 58, 32, 34>>
                                 \o nameMap[i][2] \o <<34>>],
                         <<44, 10>>)
             \o <<10, 125>>

\* encode once the identifiers are sorted: identifiers[i] = <<oldName>>
ScrambleRenamed(identifiers, renamed) ==
    [out |-> Returned(Minify(renamed),
                      StringifyTable([i \in 1..Len(identifiers) |->
                                         <<identifiers[i][1], generateName(i - 1)>>])),
     work |-> [steps |-> <<"identifiers", "rename", "minify">>,
               identifiers |-> [i \in 1..Len(identifiers) |-> identifiers[i][1]],
               nameMap |-> [i \in 1..Len(identifiers) |->
                               <<identifiers[i][1], generateName(i - 1)>>],
               renamed |-> renamed]]

\* encode once the identifiers are found
ScrambleSorted(text, identifiers) ==
    ScrambleRenamed(identifiers, RenameAll(text, identifiers, 1))

\* each identifier as an entry of one field, for the sort
Singletons(identifiers) == [i \in 1..Len(identifiers) |-> <<identifiers[i]>>]

\* lexicalScramble.encode(code)
ScrambleEncode(text) ==
    ScrambleSorted(text, SortByLengthDesc(Singletons(getIdentifiers(text)), 1))

----------------------------------------------------------------------------
(* Lexical Scramble: decode.                                               *)

RECURSIVE SkipWhitespace(_, _)
\* the first position >= i that holds no JSON whitespace
SkipWhitespace(text, i) ==
    IF i <= Len(text) /\ text[i] \in {32, 9, 10, 13} THEN SkipWhitespace(text, i + 1) ELSE i

\* a JSON string without escapes opens at position i: the position of its
\* closing quote, or 0
JsonStringEnd(text, i) ==
    IF i <= Len(text) /\ text[i] = 34
           /\ FirstAtOrAfter(text, 34, i + 1) <= Len(text)
           /\ \A m \in (i + 1)..(FirstAtOrAfter(text, 34, i + 1) - 1) :
                  text[m] # 92 /\ text[m] >= 32
    THEN FirstAtOrAfter(text, 34, i + 1)
    ELSE 0

RECURSIVE ParseMembers(_, _, _)
\* the members '"key": "value"' of a JSON object from position i on, which
\* follows '{' or ','; the result is the sequence of <<key, value>>, or
\* <<"SyntaxError">> after what JSON.parse rejects
ParseMembers(text, i, entries) ==
    LET keyOpen == SkipWhitespace(text, i)
        keyClose == JsonStringEnd(text, keyOpen)
        colon == SkipWhitespace(text, keyClose + 1)
        valueOpen == SkipWhitespace(text, colon + 1)
        valueClose == JsonStringEnd(text, valueOpen)
        next == SkipWhitespace(text, valueClose + 1)
        entry == <<SubSeq(text, keyOpen + 1, keyClose - 1),
                   SubSeq(text, valueOpen + 1, valueClose - 1)>>
    IN  IF keyClose = 0 THEN <<"SyntaxError">>
        ELSE IF colon > Len(text) \/ text[colon] # 58 THEN <<"SyntaxError">>
        ELSE IF valueClose = 0 THEN <<"SyntaxError">>
        ELSE IF next > Len(text) THEN <<"SyntaxError">>
        ELSE IF text[next] = 44 THEN ParseMembers(text, next + 1, Append(entries, entry))
        ELSE IF text[next] = 125 /\ SkipWhitespace(text, next + 1) > Len(text)
        THEN Append(entries, entry)
        ELSE <<"SyntaxError">>

\* JSON.parse(mapJson) for an object whose values are strings, as the
\* sequence of its entries; the tables of encode have distinct keys, none of
\* them an array index, so Object.entries lists them in the order of the text
ParseTable(mapJson) ==
    LET open == SkipWhitespace(mapJson, 1)
        inner == SkipWhitespace(mapJson, open + 1)
    IN  IF open > Len(mapJson) \/ mapJson[open] # 123 THEN <<"SyntaxError">>
        ELSE IF inner <= Len(mapJson) /\ mapJson[inner] = 125
        THEN IF SkipWhitespace(mapJson, inner + 1) > Len(mapJson)
             THEN <<>>
             ELSE <<"SyntaxError">>
        ELSE ParseMembers(mapJson, open + 1, <<>>)

RECURSIVE ExpandReplacement(_, _, _)
\* the replacement text that replace() inserts for the replacement string
\* name when the pattern has no group: '$$' stands for '$'
ExpandReplacement(name, i, out) ==
    IF i > Len(name) THEN out
    ELSE IF name[i] = 36 /\ i + 1 <= Len(name) /\ name[i + 1] = 36
    THEN ExpandReplacement(name, i + 2, Append(out, 36))
    ELSE ExpandReplacement(name, i + 1, Append(out, name[i]))

RECURSIVE RestoreAll(_, _, _)
\* the for loop of decode from the entry of index i on
RestoreAll(originalCode, entries, i) ==
    IF i > Len(entries) THEN originalCode
    ELSE RestoreAll(ReplaceWord(originalCode, entries[i][2],
                                ExpandReplacement(entries[i][1], 1, <<>>), 1, <<>>),
                    entries, i + 1)

\* 'Successfully deobfuscated using the provided map.'
ScrambleDecodeLog ==
    <<83, 117, 99, 99, 101, 115, 115, 102, 117, 108, 108, 121, 32, 100, 101, 111, 98, 102, 117, 115, 99, 97, 116, 101, 100, 32, 117, 115, 105, 110, 103, 32, 116, 104, 101, 32, 112, 114, 111, 118, 105, 100, 101, 100, 32, 109, 97, 112, 46>>

\* decode once the map is parsed
ScrambleParsed(scrambledCode, nameMap) ==
    IF nameMap = <<"SyntaxError">>
    THEN Thrown("Failed to parse map or deobfuscate. SyntaxError")
    ELSE Returned(RestoreAll(scrambledCode, SortByLengthDesc(nameMap, 2), 1),
                  ScrambleDecodeLog)

\* lexicalScramble.decode(scrambledCode, mapJson)
ScrambleDecode(scrambledCode, mapJson) ==
    IF Len(mapJson) = 0
    THEN Thrown("Deobfuscation map is required for Lexical Scramble.")
    ELSE ScrambleParsed(scrambledCode, ParseTable(mapJson))

----------------------------------------------------------------------------
(* The inputs.                                                             *)

RECURSIVE SeqsUpTo(_, _)
\* every sequence over alphabet of length 0..n
SeqsUpTo(alphabet, n) ==
    IF n = 0 THEN {<<>>}
    ELSE LET shorter == SeqsUpTo(alphabet, n - 1)
         IN  shorter \cup {Append(t, c) : t \in {u \in shorter : Len(u) = n - 1}, c \in alphabet}

\* source texts for Lana-Vortex: every text over 'a', 'b' up to MaxVortexLen,
\* 'console.log(1)', 'abcdefgh', 'abcdefghij', and two texts with a code unit
\* above 255: U+20AC, 'a' U+20AC 'b'
VortexTexts ==
    SeqsUpTo({97, 98}, MaxVortexLen)
        \cup {<<99, 111, 110, 115, 111, 108, 101, 46, 108, 111, 103, 40, 49, 41>>,
              <<97, 98, 99, 100, 101, 102, 103, 104>>,
              <<97, 98, 99, 100, 101, 102, 103, 104, 105, 106>>,
              <<8364>>, <<97, 8364, 98>>}

\* source texts for String Conceal: every text over '"', "'", '\' and 'a' up to
\* MaxConcealLen, 'let x = "hi";', 'f("a",\'b\')', a literal holding U+20AC,
\* a literal whose backslash precedes a line feed, and a text with no quote
ConcealTexts ==
    SeqsUpTo({34, 39, 92, 97}, MaxConcealLen)
        \cup {<<108, 101, 116, 32, 120, 32, 61, 32, 34, 104, 105, 34, 59>>,
              <<102, 40, 34, 97, 34, 44, 39, 98, 39, 41>>,
              <<34, 8364, 34>>,
              <<39, 92, 10, 39>>,
              <<120, 61, 49, 59>>}

\* source texts for Lexical Scramble: every text over 'a', 'i', 'n', '$' and
\* ' ' up to MaxScrambleLen ('in' is a keyword, 'a' the first generated name), and
\*   'function foo(bar){return bar+1;}'
\*   'foo a'
\*   'do$ do'
\*   '$ do'
\*   'foo$ foo'
\*   'a$$ a'
\*   'user username'
\*   'var x=1; // x\ny'
\*   '/* a */ b'
\*   'd/**/o x'
\*   'x "a"'
\*   'y='do''
\*   'a \t\n b'
\*   'if(a){b}'
\*   '1abc'
\*   'x `y`'
ScrambleTexts ==
    SeqsUpTo({97, 105, 110, 36, 32}, MaxScrambleLen)
        \cup {<<102, 117, 110, 99, 116, 105, 111, 110, 32, 102, 111, 111, 40, 98, 97, 114, 41, 123, 114, 101, 116, 117, 114, 110, 32, 98, 97, 114, 43, 49, 59, 125>>,
              <<102, 111, 111, 32, 97>>,
              <<100, 111, 36, 32, 100, 111>>,
              <<36, 32, 100, 111>>,
              <<102, 111, 111, 36, 32, 102, 111, 111>>,
              <<97, 36, 36, 32, 97>>,
              <<117, 115, 101, 114, 32, 117, 115, 101, 114, 110, 97, 109, 101>>,
              <<118, 97, 114, 32, 120, 61, 49, 59, 32, 47, 47, 32, 120, 10, 121>>,
              <<47, 42, 32, 97, 32, 42, 47, 32, 98>>,
              <<100, 47, 42, 42, 47, 111, 32, 120>>,
              <<120, 32, 34, 97, 34>>,
              <<121, 61, 39, 100, 111, 39>>,
              <<97, 32, 9, 10, 32, 98>>,
              <<105, 102, 40, 97, 41, 123, 98, 125>>,
              <<49, 97, 98, 99>>,
              <<120, 32, 96, 121, 96>>}

\* keys: '', 'k', 'ab', '>>>' (base64 'Pj4+'), '???' (base64 'Pz8/'),
\* 'secret' (its hash is negative), 'a' U+20AC
Keys ==
    {<<>>, <<107>>, <<97, 98>>, <<62, 62, 62>>, <<63, 63, 63>>,
     <<115, 101, 99, 114, 101, 116>>, <<97, 8364>>}

\* keys for Lana-Vortex: Keys, and every key of one or two characters over
\* 'a', 'b', 'k', each seeding the generator differently
VortexKeys == Keys \cup SeqsUpTo({97, 98, 107}, 2)

----------------------------------------------------------------------------
(* The calls.                                                              *)

Init ==
    /\ method \in {"lana-vortex", "string-conceal", "lexical-scramble"}
    /\ code \in CASE method = "lana-vortex" -> VortexTexts
                 [] method = "string-conceal" -> ConcealTexts
                 [] method = "lexical-scramble" -> ScrambleTexts
    /\ key \in CASE method = "lana-vortex" -> VortexKeys
                [] method = "string-conceal" -> Keys
                [] method = "lexical-scramble" -> {<<>>}
    /\ calls = 0
    /\ enc = NoCall
    /\ prev = [out |-> NoCall, work |-> NoWork]
    /\ work = NoWork
    /\ decArg = <<>>
    /\ dec = NoCall

\* lanaVortex.encode(code, key)
lanaVortexEncode ==
    /\ method = "lana-vortex"
    /\ calls < MaxCalls
    /\ dec = NoCall
    /\ \E r \in {VortexEncode(code, key)} :
           enc' = r.out /\ work' = r.work
    /\ prev' = [out |-> enc, work |-> work]
    /\ calls' = calls + 1
    /\ UNCHANGED <<method, code, key, decArg, dec>>

\* lanaVortex.decode(artifact, k) on the artifact of the latest encode call
lanaVortexDecode ==
    /\ method = "lana-vortex"
    /\ enc.ok
    /\ dec = NoCall
    /\ \E k \in Keys :
           /\ decArg' = k
           /\ dec' = VortexDecode(enc.result, k)
    /\ UNCHANGED <<method, code, key, calls, enc, prev, work>>

\* stringConceal.encode(code, key); the two names end in random suffixes
stringConcealEncode ==
    /\ method = "string-conceal"
    /\ calls = 0
    /\ dec = NoCall
    /\ \E arraySuffix \in NameSuffixes, funcSuffix \in NameSuffixes :
           \E r \in {ConcealEncode(code, key, arraySuffix, funcSuffix)} :
               enc' = r.out /\ work' = r.work
    /\ prev' = [out |-> enc, work |-> work]
    /\ calls' = calls + 1
    /\ UNCHANGED <<method, code, key, decArg, dec>>

\* stringConceal.decode(artifact, k) on the artifact of the encode call
stringConcealDecode ==
    /\ method = "string-conceal"
    /\ enc.ok
    /\ dec = NoCall
    /\ \E k \in Keys :
           /\ decArg' = k
           /\ dec' = ConcealDecode(enc.result, k)
    /\ UNCHANGED <<method, code, key, calls, enc, prev, work>>

\* lexicalScramble.encode(code)
lexicalScrambleEncode ==
    /\ method = "lexical-scramble"
    /\ calls = 0
    /\ dec = NoCall
    /\ \E r \in {ScrambleEncode(code)} :
           enc' = r.out /\ work' = r.work
    /\ prev' = [out |-> enc, work |-> work]
    /\ calls' = calls + 1
    /\ UNCHANGED <<method, code, key, decArg, dec>>

\* lexicalScramble.decode(artifact, table) on the artifact and the table of
\* the encode call
lexicalScrambleDecode ==
    /\ method = "lexical-scramble"
    /\ enc.ok
    /\ dec = NoCall
    /\ dec' = ScrambleDecode(enc.result, enc.map)
    /\ UNCHANGED <<method, code, key, calls, enc, prev, work, decArg>>

Next ==
    \/ lanaVortexEncode
    \/ lanaVortexDecode
    \/ stringConcealEncode
    \/ stringConcealDecode
    \/ lexicalScrambleEncode
    \/ lexicalScrambleDecode

Spec == Init /\ [][Next]_vars

----------------------------------------------------------------------------
(* The names of encode, index by index.                                    *)

NameInit ==
    /\ method = "generate-name"
    /\ code = <<>>
    /\ key = <<>>
    /\ calls = 0
    /\ enc = NoCall
    /\ prev = [out |-> NoCall, work |-> NoWork]
    /\ work = NoWork
    /\ decArg = <<>>
    /\ dec = NoCall

\* const newName = generateName(i), for the identifier of index i in the
\* forEach of encode
generateNameCall ==
    /\ method = "generate-name"
    /\ calls = 0
    /\ \E i \in 0..MaxNameIndex :
           /\ work' = [steps |-> <<"rename">>, index |-> i]
           /\ enc' = Returned(generateName(i), <<>>)
    /\ calls' = calls + 1
    /\ UNCHANGED <<method, code, key, prev, decArg, dec>>

NameNext == generateNameCall

NameSpec == NameInit /\ [][NameNext]_vars

----------------------------------------------------------------------------
(* Repeated calls of lanaVortex.encode, with calls on another text and key *)
(* in between.  A call is two steps: up to the creation of its generator,  *)
(* and from the sort on.  work holds the locals of the call that began     *)
(* last, among them the seed of its generator, until the next call begins. *)

\* the text and key of calls made in between: 'abcdefghij' under 'b', 'ba'
\* under 'secret'
OtherInputs ==
    {<<<<97, 98, 99, 100, 101, 102, 103, 104, 105, 106>>, <<98>>>>,
     <<<<98, 97>>, <<115, 101, 99, 114, 101, 116>>>>}

\* code: '', 'ab', 'abcdefgh', 'console.log(1)', 'a' U+20AC 'b';
\* key: '', 'k', 'ab', 'secret', 'a' U+20AC
RepeatInit ==
    /\ method = "lana-vortex-repeat"
    /\ code \in {<<>>, <<97, 98>>, <<97, 98, 99, 100, 101, 102, 103, 104>>,
                 <<99, 111, 110, 115, 111, 108, 101, 46, 108, 111, 103, 40, 49, 41>>,
                 <<97, 8364, 98>>}
    /\ key \in {<<>>, <<107>>, <<97, 98>>, <<115, 101, 99, 114, 101, 116>>, <<97, 8364>>}
    /\ calls = 0
    /\ enc = NoCall
    /\ prev = [out |-> NoCall, work |-> NoWork]
    /\ work = NoWork
    /\ decArg = <<>>
    /\ dec = NoCall

\* lanaVortex.encode(input[1], input[2]) up to
\* const random = seededRandom(createSeed(key)): the input check, the
\* fragments and the generator. decArg lists the inputs of the calls begun;
\* calls counts the finished calls on (code, key), prev keeps the first.
lanaVortexEncodeSeed ==
    /\ method = "lana-vortex-repeat"
    /\ work.steps # <<"fragmentation">>
    /\ \E input \in {<<code, key>>} \cup OtherInputs :
           /\ IF input = <<code, key>>
              THEN calls < MaxCalls
              ELSE Cardinality({i \in 1..Len(decArg) : decArg[i] # <<code, key>>})
                       < MaxOtherCalls
           /\ decArg' = Append(decArg, input)
           /\ IF Len(input[1]) = 0 \/ Len(input[2]) = 0
              THEN /\ enc' = Thrown("Code and key cannot be empty for Lana-Vortex.")
                   /\ work' = NoWork
                   /\ calls' = calls + 1
                   /\ prev' = IF calls = 0 THEN [out |-> enc', work |-> NoWork] ELSE prev
              ELSE /\ work' = [steps |-> <<"fragmentation">>,
                               fragments |-> Fragments(input[1], input[2]),
                               seed |-> seededRandom(input[2]),
                               draws |-> 0]
                   /\ UNCHANGED <<enc, calls, prev>>
    /\ UNCHANGED <<method, code, key, dec>>

\* the rest of the call: the sort drawing from the generator, the two
\* arrays, the cipher and the wrapper
lanaVortexEncodeShuffle ==
    /\ method = "lana-vortex-repeat"
    /\ work.steps = <<"fragmentation">>
    /\ \E r \in {VortexShuffled(
                     ShuffleLocals(work.fragments,
                                   ShuffleSort(IndexArray(Len(work.fragments)), work.seed)),
                     decArg[Len(decArg)][2])} :
           /\ enc' = r.out
           /\ work' = r.work
           /\ calls' = IF decArg[Len(decArg)] = <<code, key>> THEN calls + 1 ELSE calls
           /\ prev' = IF decArg[Len(decArg)] = <<code, key>> /\ calls = 0 THEN r ELSE prev
    /\ UNCHANGED <<method, code, key, decArg, dec>>

RepeatNext ==
    \/ lanaVortexEncodeSeed
    \/ lanaVortexEncodeShuffle

RepeatSpec == RepeatInit /\ [][RepeatNext]_vars

----------------------------------------------------------------------------
(* lanaVortex.decode on artifacts in the layout its patterns look for.     *)

\* payload entries: 'YQ==' and 'Yg==' (base64 of 'a' and 'b'), and '!', which
\* is not base64
PayloadEntries == {<<89, 81, 61, 61>>, <<89, 103, 61, 61>>, <<33>>}

\* map entries: 0, 1 and null (written -1)
MapEntries == {0, 1, -1}

ArtifactLayouts == {"both", "no payload", "no map", "payload not JSON", "empty"}

\* the artifact text with the arrays payload and orderMap:
\*   'var p=[...];var m=[...];', the same without one of the two statements,
\*   'var p=[x];var m=[...];', or the empty text
VortexArtifact(payload, orderMap, layout) ==
    LET p == PayloadPattern \o StringifyStrings(payload) \o <<59>>
        m == MapPattern \o StringifyNumbers(orderMap) \o <<59>>
    IN  CASE layout = "both" -> p \o m
          [] layout = "no payload" -> m
          [] layout = "no map" -> p
          [] layout = "payload not JSON" -> PayloadPattern \o <<91, 120, 93, 59>> \o m
          [] layout = "empty" -> <<>>

\* keys given to decode: '', 'k', 'ab'
DecodeKeys == {<<>>, <<107>>, <<97, 98>>}

DecodeInit ==
    /\ method = "lana-vortex-decode"
    /\ \E payload \in SeqsUpTo(PayloadEntries, MaxTableLen),
          orderMap \in SeqsUpTo(MapEntries, MaxTableLen),
          layout \in ArtifactLayouts :
           /\ work = [steps |-> <<>>, payload |-> payload, orderMap |-> orderMap,
                      layout |-> layout]
           /\ code = VortexArtifact(payload, orderMap, layout)
    /\ key \in DecodeKeys
    /\ calls = 0
    /\ enc = NoCall
    /\ prev = [out |-> NoCall, work |-> NoWork]
    /\ decArg = <<>>
    /\ dec = NoCall

\* lanaVortex.decode(code, key)
lanaVortexDecodeArtifact ==
    /\ method = "lana-vortex-decode"
    /\ dec = NoCall
    /\ decArg' = key
    /\ dec' = VortexDecode(code, key)
    /\ UNCHANGED <<method, code, key, calls, enc, prev, work>>

DecodeNext == lanaVortexDecodeArtifact

DecodeSpec == DecodeInit /\ [][DecodeNext]_vars

----------------------------------------------------------------------------
(* Claims about Lana-Vortex.                                               *)

\* the step named s ran in the latest encode call
Ran(s) == \E i \in 1..Len(work.steps) : work.steps[i] = s

\* m is the identity map
IsIdentity(m) == \A i \in 1..Len(m) : m[i] = i - 1

\* C1: round trip. For every non-empty text and non-empty key, decoding the
\* artifact of encode with the same key succeeds and returns the text.
C1_VortexRoundTrip ==
    (method = "lana-vortex" /\ Len(code) > 0 /\ Len(key) > 0
        /\ dec # NoCall /\ decArg = key)
    => (dec.ok /\ dec.result = code)

\* C1 failing input: 'console.log(1)' under key 'ab'; the artifact would
\* reconstruct the text when run, and decode rejects its format
C1_Failure ==
    /\ method = "lana-vortex"
    /\ code = <<99, 111, 110, 115, 111, 108, 101, 46, 108, 111, 103, 40, 49, 41>>
    /\ key = <<97, 98>>
    /\ enc.ok
    /\ ArrayMatches(enc.result, PayloadPattern)
    /\ ~ArrayMatches(enc.result, MapPattern)
    /\ decArg = key
    /\ dec = Thrown(DecodingFailed
                       \o "Invalid Lana-Vortex format. Cannot find payload or map.")

\* the latest call of encode was made on (code, key) and has finished
RepeatedCall ==
    /\ method = "lana-vortex-repeat"
    /\ work.steps # <<"fragmentation">>
    /\ Len(decArg) > 0
    /\ decArg[Len(decArg)] = <<code, key>>

\* C6: determinism. A call of encode on a text and key returns what the
\* first call on them returned, from the same fragments, the same draws of
\* the generator, the same map, the same payload and the same embedded key,
\* whatever call was made in between; its draws are those of a generator
\* started from createSeed(key), and its artifact embeds its own map, payload
\* and key.
C6_VortexDeterminism ==
    (RepeatedCall /\ calls >= 1)
    => /\ enc = prev.out
       /\ work = prev.work
       /\ (Ran("shuffling") /\ work.draws > 0)
              => work.seed = SeedsFrom(createSeed(key), work.draws)[work.draws]
       /\ enc.ok => /\ WrapperLiterals(enc.result).p = work.encryptedFragments
                    /\ WrapperLiterals(enc.result).m = work.originalOrderMap
                    /\ WrapperLiterals(enc.result).k = btoa(key)

\* C6 witness: a second call on 'console.log(1)' under 'ab', made after a call
\* on 'abcdefghij' under 'b', whose shuffle took several draws and moved fragments
C6_Witness ==
    /\ RepeatedCall
    /\ calls = 2
    /\ Len(decArg) = 3
    /\ decArg[2] = <<<<97, 98, 99, 100, 101, 102, 103, 104, 105, 106>>, <<98>>>>
    /\ code = <<99, 111, 110, 115, 111, 108, 101, 46, 108, 111, 103, 40, 49, 41>>
    /\ key = <<97, 98>>
    /\ enc.ok
    /\ work.draws = 13
    /\ work.originalOrderMap = <<6, 3, 0, 1, 4, 5, 2>>

\* the wrapper of every artifact encode returns assembles the source text
\* when it runs (atob of the embedded key, XOR of each payload entry, stored
\* at the position m.indexOf(i), joined), and encode returns an artifact for
\* every non-empty text and key of code units up to 255
WrapperReconstructsLatin1 ==
    /\ (method = "lana-vortex" /\ enc.ok) => WrapperAssembles(enc.result) = code
    /\ (method = "lana-vortex" /\ calls >= 1 /\ Len(code) > 0 /\ Len(key) > 0
           /\ ~BtoaThrows(code) /\ ~BtoaThrows(key))
       => enc.ok

\* C7: self-reconstruction. For every non-empty text and non-empty key,
\* encode returns an artifact, and the text its wrapper assembles when it
\* runs (atob of the embedded key, XOR of each payload entry, stored at the
\* position m.indexOf(i), joined) is the source text.
C7_WrapperReconstructs ==
    (method = "lana-vortex" /\ calls >= 1 /\ Len(code) > 0 /\ Len(key) > 0)
    => (enc.ok /\ WrapperAssembles(enc.result) = code)

\* C7 failing input: the text U+20AC under key 'k'; btoa throws on the
\* encrypted fragment and encode returns no artifact
C7_Failure ==
    /\ method = "lana-vortex"
    /\ calls >= 1
    /\ code = <<8364>>
    /\ key = <<107>>
    /\ work.steps = <<"fragmentation", "shuffling">>
    /\ BtoaThrows(xorCipher(work.shuffledFragments[1], key))
    /\ enc = Thrown("InvalidCharacterError")

\* C10: the permutation map. Once encode has shuffled, the map has one entry
\* per fragment, every value of [0, n) occurs in it exactly once, and the payload
\* entry at map[oi] is the encryption of fragment oi; the artifact embeds this
\* map and this payload.
C10_PermutationMap ==
    (method = "lana-vortex" /\ Ran("shuffling")) =>
        LET n == Len(work.fragments)
            size == ChunkSize(key)
            map == work.originalOrderMap
        IN  /\ n = (Len(code) + size - 1) \div size
            /\ Concat(work.fragments) = code
            /\ Len(map) = n
            /\ \A v \in 0..(n - 1) : Cardinality({oi \in 1..n : map[oi] = v}) = 1
            /\ Ran("cipher") =>
                   /\ Len(work.encryptedFragments) = n
                   /\ \A oi \in 1..n :
                          work.encryptedFragments[map[oi] + 1]
                              = btoa(xorCipher(work.fragments[oi], key))
            /\ enc.ok =>
                   /\ WrapperLiterals(enc.result).m = map
                   /\ WrapperLiterals(enc.result).p = work.encryptedFragments

\* C10 witness: an artifact of seven fragments, shuffled out of order with
\* thirteen comparisons
C10_Witness ==
    /\ method = "lana-vortex"
    /\ enc.ok
    /\ Len(work.fragments) = 7
    /\ work.draws = 13
    /\ work.originalOrderMap = <<6, 3, 0, 1, 4, 5, 2>>

----------------------------------------------------------------------------
(* Claims about String Conceal, and about the input checks.                *)

\* the contents of the string literals of text, left to right
StringLiterals(text) == StringScan(text, 1, <<>>, <<>>).strings

\* C3: recovery. For every text with at least one string literal and every
\* non-empty key, decoding the artifact of encode with the same key succeeds,
\* returns the fixed note and never the text, and logs entries 0..n-1 whose
\* values are the contents of the literals of the text from left to right.
C3_ConcealRecovery ==
    (method = "string-conceal" /\ Len(StringLiterals(code)) > 0 /\ Len(key) > 0
        /\ dec # NoCall /\ decArg = key)
    => /\ dec.ok
       /\ dec.result = ReconstructionNote
       /\ dec.result # code
       /\ dec.map = RevealLog(StringLiterals(code))

\* C3 failing input: 'let x = "hi";' under key '>>>', whose base64 form is
\* 'Pj4+'; the array is named '_S4i'
C3_Failure ==
    /\ method = "string-conceal"
    /\ code = <<108, 101, 116, 32, 120, 32, 61, 32, 34, 104, 105, 34, 59>>
    /\ key = <<62, 62, 62>>
    /\ enc.ok
    /\ work.arrayName = <<95, 83, 52, 105>>
    /\ ConcealArrayMatches(enc.result)
    /\ ~KeyMatches(enc.result)
    /\ decArg = key
    /\ dec = Thrown(RevealFailed
                       \o "Could not find the concealed string array or key in the code.")

\* C4: key sensitivity. For every artifact of encode with at least one
\* extracted literal, decode with a key whose base64 form differs from that of
\* the key of encode fails with 'The provided key is incorrect.' and with no
\* other error, and reveals no string.
C4_ConcealKeySensitivity ==
    (method = "string-conceal" /\ enc.ok /\ Len(work.strings) > 0
        /\ dec # NoCall /\ Len(decArg) > 0 /\ ~BtoaThrows(decArg)
        /\ btoa(decArg) # btoa(key))
    => /\ ~dec.ok
       /\ dec.error = RevealFailed \o "The provided key is incorrect."
       /\ dec.map = <<>>

\* C4 failing input: the artifact of 'let x = "hi";' under key '???', whose
\* base64 form is 'Pz8/', decoded with key 'k'
C4_Failure ==
    /\ method = "string-conceal"
    /\ code = <<108, 101, 116, 32, 120, 32, 61, 32, 34, 104, 105, 34, 59>>
    /\ key = <<63, 63, 63>>
    /\ enc.ok
    /\ work.arrayName = <<95, 83, 52, 105>>
    /\ decArg = <<107>>
    /\ dec = Thrown(RevealFailed
                       \o "Could not find the concealed string array or key in the code.")

\* C5 as stated: the encode of Lana-Vortex and the encode of String Conceal
\* both fail, with no artifact and before any transformation step, whenever
\* the text is empty or the key is empty.
C5_RejectsEmptyInput ==
    (method \in {"lana-vortex", "string-conceal"} /\ calls >= 1
        /\ (Len(code) = 0 \/ Len(key) = 0))
    => (~enc.ok /\ enc.result = <<>> /\ work.steps = <<>>)

\* C5, amended: the encode of Lana-Vortex fails, with no artifact and before
\* any transformation step, whenever the text or the key is empty; the encode
\* of String Conceal does so whenever the key is empty, and given an empty text
\* and a non-empty key it returns the empty text with the no-strings log.
C5_RejectsEmptyInputAmended ==
    /\ (method = "lana-vortex" /\ calls >= 1 /\ (Len(code) = 0 \/ Len(key) = 0))
       => /\ ~enc.ok
          /\ enc.error = "Code and key cannot be empty for Lana-Vortex."
          /\ enc.result = <<>>
          /\ work.steps = <<>>
    /\ (method = "string-conceal" /\ calls >= 1 /\ Len(key) = 0)
       => /\ ~enc.ok
          /\ enc.error = "A secret key is required for String Concealment."
          /\ enc.result = <<>>
          /\ work.steps = <<>>
    /\ (method = "string-conceal" /\ calls >= 1 /\ Len(code) = 0 /\ Len(key) > 0)
       => /\ enc.ok
          /\ enc.result = <<>>
          /\ enc.map = NoStringsLog

\* C5 witness: String Conceal's encode has rejected a text with a literal
\* because the key is empty
C5_Witness ==
    /\ method = "string-conceal"
    /\ calls = 1
    /\ Len(key) = 0
    /\ Len(StringLiterals(code)) > 0
    /\ ~enc.ok
    /\ work.steps = <<>>

\* C9: empty-input boundary. For every text without a string literal and
\* every non-empty key, encode returns the text character for character, with
\* no array, key or decoder prelude, and the log 'No strings found to conceal.'
C9_ConcealNoLiterals ==
    (method = "string-conceal" /\ calls >= 1 /\ Len(key) > 0
        /\ Len(StringLiterals(code)) = 0)
    => /\ enc.ok
       /\ enc.result = code
       /\ enc.map = NoStringsLog
       /\ ~Ran("encrypt")
       /\ ~Ran("prelude")
       /\ ~ConcealArrayMatches(enc.result)
       /\ ~KeyMatches(enc.result)

\* C9 witness: encode has returned a text that holds quote characters but no
\* literal
C9_Witness ==
    /\ method = "string-conceal"
    /\ calls = 1
    /\ Len(key) > 0
    /\ \E i \in 1..Len(code) : code[i] = 34
    /\ \E i \in 1..Len(code) : code[i] = 39
    /\ Len(StringLiterals(code)) = 0
    /\ enc.ok
    /\ enc.result = code

----------------------------------------------------------------------------
(* Claims about Lexical Scramble.                                          *)

\* the keywords among the identifier tokens of text, in the order of the text
ReservedTokens(text) ==
    SelectSeq(IdentifierMatches(text, 1, <<>>), LAMBDA token : token \in Keywords)

\* C2: round trip. For every text, decoding the artifact of encode with the
\* table of encode returns the minified text (comments stripped, runs of
\* whitespace collapsed to one space): every replacement name is turned back
\* into its identifier and nothing else changes, also when the text holds an
\* identifier equal to a generated name.
C2_ScrambleRoundTrip ==
    (method = "lexical-scramble" /\ dec # NoCall)
    => (dec.ok /\ dec.result = Minify(code))

\* C2 failing input: 'foo a'; the artifact is 'b b' and decode returns 'a a'
C2_Failure ==
    /\ method = "lexical-scramble"
    /\ code = <<102, 111, 111, 32, 97>>
    /\ enc.result = <<98, 32, 98>>
    /\ ParseTable(enc.map) = <<<<<<102, 111, 111>>, <<97>>>>, <<<<97>>, <<98>>>>>>
    /\ dec.ok
    /\ dec.result = <<97, 32, 97>>

\* C8: table shape. For every text, the keys of the table returned by encode
\* are exactly the distinct identifier tokens of the comment-and-string-
\* stripped text that are no keyword, distinct identifiers have distinct
\* replacement names, and no keyword is a key of the table or is changed in
\* the artifact.
C8_ScrambleTableShape ==
    (method = "lexical-scramble" /\ calls >= 1)
    => /\ enc.ok
       /\ ParseTable(enc.map) # <<"SyntaxError">>
       /\ LET table == ParseTable(enc.map)
              tokens == IdentifierMatches(CleanCode(code), 1, <<>>)
          IN  /\ {table[i][1] : i \in 1..Len(table)}
                     = {tokens[i] : i \in 1..Len(tokens)} \ Keywords
              /\ \A i, j \in 1..Len(table) :
                     i # j => (table[i][1] # table[j][1] /\ table[i][2] # table[j][2])
              /\ \A i \in 1..Len(table) : table[i][1] \notin Keywords
       /\ ReservedTokens(enc.result) = ReservedTokens(StripComments(code, 1, <<>>))

\* C8 failing input: 'do$ do'; the identifier 'do$' is renamed 'a', and the
\* artifact is 'do$ a': the keyword 'do' is renamed, the identifier is not
C8_Failure ==
    /\ method = "lexical-scramble"
    /\ code = <<100, 111, 36, 32, 100, 111>>
    /\ calls = 1
    /\ ParseTable(enc.map) = <<<<<<100, 111, 36>>, <<97>>>>>>
    /\ enc.result = <<100, 111, 36, 32, 97>>
    /\ ReservedTokens(code) = <<<<100, 111>>>>
    /\ ReservedTokens(enc.result) = <<>>

----------------------------------------------------------------------------
(* Claims about the generator, the generated names and decode's errors.    *)

\* C11: generator range. For every key, starting from the seed createSeed(key),
\* every draw of the shuffle leaves the seed in [0, 233280), so that the
\* value seed / 233280 it returns lies in [0, 1), also when the hash of the
\* key is negative.
C11_GeneratorRange ==
    (method = "lana-vortex" /\ Ran("shuffling"))
    => /\ work.draws > 0 => work.seed = SeedsFrom(createSeed(key), work.draws)[work.draws]
       /\ \A i \in 1..work.draws :
              /\ SeedsFrom(createSeed(key), work.draws)[i] >= 0
              /\ SeedsFrom(createSeed(key), work.draws)[i] < LcgModulus

\* C11 failing input: 'console.log(1)' under key 'secret', whose hash is
\* -906277200; the four draws of the shuffle leave the seeds -188543, -23386,
\* -46929 and -203732
C11_Failure ==
    /\ method = "lana-vortex"
    /\ code = <<99, 111, 110, 115, 111, 108, 101, 46, 108, 111, 103, 40, 49, 41>>
    /\ key = <<115, 101, 99, 114, 101, 116>>
    /\ createSeed(key) = -906277200
    /\ Ran("shuffling")
    /\ work.draws = 4
    /\ SeedsFrom(createSeed(key), 4) = <<-188543, -23386, -46929, -203732>>
    /\ work.seed = -203732

RECURSIVE RecurrenceName(_, _, _)
\* the recurrence 'prepend alphabet[n mod base]; n = floor(n / base) - 1;
\* repeat while n >= 0' over the alphabet a..z A..Z _
RecurrenceName(n, base, name) ==
    IF n < 0 THEN name
    ELSE RecurrenceName((n \div base) - 1, base, <<NameAlphabet[(n % base) + 1]>> \o name)

\* C12 as stated: the name encode assigns to the identifier of index n is the
\* name of the recurrence with n mod 52 and floor(n / 52) - 1.
C12_NameRecurrence ==
    (method = "generate-name" /\ calls = 1)
    => enc.result = RecurrenceName(work.index, 52, <<>>)

\* C12, amended: the name encode assigns to the identifier of index n is the
\* name of the recurrence with n mod 53 and floor(n / 53) - 1, 53 being the
\* length of the alphabet a..z A..Z _.
C12_NameRecurrenceAmended ==
    (method = "generate-name" /\ calls = 1)
    => /\ enc.ok
       /\ enc.result = RecurrenceName(work.index, 53, <<>>)

\* C12 witness: the identifier of index 52 has been named '_', the last
\* character of the alphabet
C12_Witness ==
    /\ method = "generate-name"
    /\ calls = 1
    /\ work.index = 52
    /\ enc.result = <<95>>
    /\ RecurrenceName(52, 52, <<>>) = <<97, 97>>

\* the outcome of decode when it did not find both tables
FormatError ==
    Thrown(DecodingFailed \o "Invalid Lana-Vortex format. Cannot find payload or map.")

\* the outcome of decode when a shuffled position has no original index
ConsistencyError ==
    Thrown(DecodingFailed \o "Map is inconsistent. Cannot find original index.")

\* decode has been called on the artifact
Decoded == method = "lana-vortex-decode" /\ dec # NoCall

\* the artifact holds no 'var p=[...]' or no 'var m=[...]'
TableMissing == work.layout \in {"no payload", "no map", "empty"}

\* every position i of the payload has an oi with map[oi] = i
EveryPositionMapped ==
    \A i \in 1..Len(work.payload) :
        \E oi \in 1..Len(work.orderMap) : work.orderMap[oi] = i - 1

\* C13 as stated: decode returns a text only if both tables are located and
\* every shuffled position has an original index; if a table is missing it
\* fails with the format error, if a position has no original index it fails
\* with the consistency error, and in both cases it returns no text.
C13_DecodePrecondition ==
    Decoded
    => /\ dec.ok => (work.layout = "both" /\ EveryPositionMapped)
       /\ TableMissing => dec = FormatError
       /\ (work.layout = "both" /\ ~EveryPositionMapped) => dec = ConsistencyError

\* C13, amended: decode returns a text only if both tables are located and
\* every shuffled position has an original index. With an empty artifact or
\* an empty key it fails with the input error; otherwise, if a table is
\* missing it fails with the format error, if the payload is not JSON with
\* the parser's error, if a payload entry is not base64 with the base64
\* decoder's error, and if all entries are base64 and a position has no
\* original index with the consistency error. A failed call returns no text.
C13_DecodePreconditionAmended ==
    Decoded
    => /\ dec.ok => (work.layout = "both" /\ EveryPositionMapped)
       /\ (Len(code) = 0 \/ Len(key) = 0)
              => dec = Thrown("Encoded code and key are required for decoding.")
       /\ (Len(code) > 0 /\ Len(key) > 0)
              => /\ TableMissing => dec = FormatError
                 /\ work.layout = "payload not JSON"
                        => dec = Thrown(DecodingFailed \o "SyntaxError")
                 /\ (work.layout = "both"
                        /\ \E i \in 1..Len(work.payload) : AtobThrows(work.payload[i]))
                        => dec = Thrown(DecodingFailed \o "InvalidCharacterError")
                 /\ (work.layout = "both"
                        /\ (\A i \in 1..Len(work.payload) : ~AtobThrows(work.payload[i]))
                        /\ ~EveryPositionMapped)
                        => dec = ConsistencyError
       /\ ~dec.ok => dec.result = <<>>

\* C13 witness: decode('var p=["YQ==","Yg=="];var m=[0,0];', 'k') has failed
\* with the consistency error: position 1 has no original index
C13_Witness ==
    /\ Decoded
    /\ code = <<118, 97, 114, 32, 112, 61, 91, 34, 89, 81, 61, 61, 34, 44, 34, 89, 103, 61, 61, 34, 93, 59, 118, 97, 114, 32, 109, 61, 91, 48, 44, 48, 93, 59>>
    /\ work.orderMap = <<0, 0>>
    /\ key = <<107>>
    /\ ~EveryPositionMapped
    /\ dec = ConsistencyError

=============================================================================
